---- MODULE Spec2Model ----
(***************************************************************************)
(* Verification model of the DesignPatternExamples_python package.         *)
(*                                                                         *)
(* Part 1: the State exercise, a comment-stripping state machine           *)
(*         (state/_state_class_private.py).                                *)
(* Part 2: the program driver, Program.Run / Program.ParseOptions          *)
(*         (program.py).                                                   *)
(*                                                                         *)
(* Characters are modelled by their code points, a text by a sequence of   *)
(* code points.  SpecialCase.EOF_CHAR is the integer 0xff, which in the    *)
(* Python source never equals a character of the text (a str).             *)
(***************************************************************************)
EXTENDS Integers, Sequences, FiniteSets, TLC

\* ------------------------------------------------------------------------
\* Bounds of the model
\* ------------------------------------------------------------------------

\* Longest enumerated input text.
MaxLen == 4

\* Number of consecutive RemoveComments calls the caller makes on one
\* context (the second one is fed the result of the first).
MaxCalls == 2

\* Longest enumerated argument list of Program.Run.
MaxArgs == 3

\* ------------------------------------------------------------------------
\* Characters
\* ------------------------------------------------------------------------

EOF_CHAR == 255

CH_NL == 10
CH_SPACE == 32
CH_DQUOTE == 34
CH_SQUOTE == 39
CH_STAR == 42
CH_SLASH == 47
CH_BACKSLASH == 92
CH_a == 97
CH_b == 98
CH_c == 99
CH_e == 101
CH_k == 107
CH_p == 112
CH_t == 116

\* The characters the state classes distinguish, plus one ordinary character.
Alphabet == {CH_NL, CH_DQUOTE, CH_SQUOTE, CH_STAR, CH_SLASH, CH_BACKSLASH, CH_a}

QuoteChars == {CH_DQUOTE, CH_SQUOTE}

\* All texts over Alphabet of length at most n.
TextsUpTo(n) == UNION {[1..k -> Alphabet] : k \in 0..n}

\* "a /* b */ c"
TextBlockExample ==
    <<CH_a, CH_SPACE, CH_SLASH, CH_STAR, CH_SPACE, CH_b, CH_SPACE, CH_STAR,
      CH_SLASH, CH_SPACE, CH_c>>

\* "a // b"
TextLineExample == <<CH_a, CH_SPACE, CH_SLASH, CH_SLASH, CH_SPACE, CH_b>>

\* "a ///* b\nc"
TextLineNewlineExample ==
    <<CH_a, CH_SPACE, CH_SLASH, CH_SLASH, CH_SLASH, CH_STAR, CH_SPACE, CH_b,
      CH_NL, CH_c>>

\* The text "/* kept */" enclosed in double quotes.
TextQuotedExample ==
    <<CH_DQUOTE, CH_SLASH, CH_STAR, CH_SPACE, CH_k, CH_e, CH_p, CH_t,
      CH_SPACE, CH_STAR, CH_SLASH, CH_DQUOTE>>

\* The text  '\'//'  : a single-quoted literal with an escaped quote.
TextEscapedExample ==
    <<CH_SQUOTE, CH_BACKSLASH, CH_SQUOTE, CH_SLASH, CH_SLASH, CH_SQUOTE>>

\* The text  /"//"  : a literal that starts directly after a '/'.
TextSlashQuoteExample ==
    <<CH_SLASH, CH_DQUOTE, CH_SLASH, CH_SLASH, CH_DQUOTE>>

\* "a/b/"
TextTrailingSlashExample == <<CH_a, CH_SLASH, CH_b, CH_SLASH>>

ExampleTexts ==
    {TextBlockExample, TextLineExample, TextLineNewlineExample,
     TextQuotedExample, TextEscapedExample, TextSlashQuoteExample,
     TextTrailingSlashExample}

\* The texts RemoveComments is called with.
InputTexts == TextsUpTo(MaxLen) \cup ExampleTexts

\* ------------------------------------------------------------------------
\* CurrentState enumeration (state_interface.py)
\* ------------------------------------------------------------------------

Initial == "Initial"
NormalText == "NormalText"
DoubleQuotedText == "DoubleQuotedText"
SingleQuotedText == "SingleQuotedText"
EscapedDoubleQuoteText == "EscapedDoubleQuoteText"
EscapedSingleQuoteText == "EscapedSingleQuoteText"
StartComment == "StartComment"
LineComment == "LineComment"
BlockComment == "BlockComment"
EndBlockComment == "EndBlockComment"
Done == "Done"

CurrentState ==
    {Initial, NormalText, DoubleQuotedText, SingleQuotedText,
     EscapedDoubleQuoteText, EscapedSingleQuoteText, StartComment,
     LineComment, BlockComment, EndBlockComment, Done}

\* ------------------------------------------------------------------------
\* IStateContext implementation (StateContext_ClassImpl)
\* A context value ctx is a record [inputText, textIndex, outputText];
\* textIndex is the 0-based Python index of the next character to read.
\* ------------------------------------------------------------------------

\* StateContext_ClassImpl.GetNextCharacter: the character read and the
\* context after the read.
GetNextCharacter(ctx) ==
    IF ctx.textIndex < Len(ctx.inputText)
    THEN [character |-> ctx.inputText[ctx.textIndex + 1],
          ctx |-> [ctx EXCEPT !.textIndex = ctx.textIndex + 1]]
    ELSE [character |-> EOF_CHAR, ctx |-> ctx]

\* StateContext_ClassImpl.OutputCharacter
OutputCharacter(ctx, character) ==
    IF character # EOF_CHAR
    THEN [ctx EXCEPT !.outputText = Append(ctx.outputText, character)]
    ELSE ctx

\* Result of one GoNext call: next state, context afterwards, character read.
GoResult(nextState, ctx, character) ==
    [nextState |-> nextState, ctx |-> ctx, character |-> character]

\* ------------------------------------------------------------------------
\* The state classes: one operator per GoNext method
\* ------------------------------------------------------------------------

State_NormalText_GoNext(ctx0) ==
    LET r == GetNextCharacter(ctx0)
        character == r.character
        ctx == r.ctx
    IN  CASE character = EOF_CHAR -> GoResult(Done, ctx, character)
          [] character = CH_DQUOTE ->
                GoResult(DoubleQuotedText, OutputCharacter(ctx, character), character)
          [] character = CH_SQUOTE ->
                GoResult(SingleQuotedText, OutputCharacter(ctx, character), character)
          [] character = CH_SLASH -> GoResult(StartComment, ctx, character)
          [] OTHER -> GoResult(NormalText, OutputCharacter(ctx, character), character)

State_DoubleQuotedText_GoNext(ctx0) ==
    LET r == GetNextCharacter(ctx0)
        character == r.character
        ctx == r.ctx
    IN  CASE character = EOF_CHAR -> GoResult(Done, ctx, character)
          [] character = CH_DQUOTE ->
                GoResult(NormalText, OutputCharacter(ctx, character), character)
          [] character = CH_BACKSLASH ->
                GoResult(EscapedDoubleQuoteText, OutputCharacter(ctx, character), character)
          [] OTHER ->
                GoResult(DoubleQuotedText, OutputCharacter(ctx, character), character)

\* Variant of State_SingleQuotedText.GoNext that does not treat a backslash
\* as the start of an escape.
State_SingleQuotedText_GoNext_NoEscape(ctx0) ==
    LET r == GetNextCharacter(ctx0)
        character == r.character
        ctx == r.ctx
    IN  CASE character = EOF_CHAR -> GoResult(Done, ctx, character)
          [] character = CH_SQUOTE ->
                GoResult(NormalText, OutputCharacter(ctx, character), character)
          [] OTHER ->
                GoResult(SingleQuotedText, OutputCharacter(ctx, character), character)

State_SingleQuotedText_GoNext(ctx0) ==
    LET r == GetNextCharacter(ctx0)
        character == r.character
        ctx == r.ctx
    IN  CASE character = EOF_CHAR -> GoResult(Done, ctx, character)
          [] character = CH_SQUOTE ->
                GoResult(NormalText, OutputCharacter(ctx, character), character)
          [] character = CH_BACKSLASH ->
                GoResult(EscapedSingleQuoteText, OutputCharacter(ctx, character), character)
          [] OTHER ->
                GoResult(SingleQuotedText, OutputCharacter(ctx, character), character)

State_EscapedDoubleQuoteText_GoNext(ctx0) ==
    LET r == GetNextCharacter(ctx0)
        character == r.character
        ctx == r.ctx
    IN  CASE character = EOF_CHAR -> GoResult(Done, ctx, character)
          [] OTHER ->
                GoResult(DoubleQuotedText, OutputCharacter(ctx, character), character)

State_EscapedSingleQuoteText_GoNext(ctx0) ==
    LET r == GetNextCharacter(ctx0)
        character == r.character
        ctx == r.ctx
    IN  CASE character = EOF_CHAR -> GoResult(Done, ctx, character)
          [] OTHER ->
                GoResult(SingleQuotedText, OutputCharacter(ctx, character), character)

\* Variant of State_StartComment.GoNext that forgets to return to
\* NormalText after re-emitting the withheld '/'.
State_StartComment_GoNext_StayInState(ctx0) ==
    LET r == GetNextCharacter(ctx0)
        character == r.character
        ctx == r.ctx
    IN  CASE character = EOF_CHAR -> GoResult(Done, ctx, character)
          [] character = CH_SLASH -> GoResult(LineComment, ctx, character)
          [] character = CH_STAR -> GoResult(BlockComment, ctx, character)
          [] OTHER ->
                GoResult(StartComment,
                         OutputCharacter(OutputCharacter(ctx, CH_SLASH), character),
                         character)

\* Variant of State_StartComment.GoNext that pushes the character back to
\* the input for NormalText to read again instead of writing it.
State_StartComment_GoNext_PushBack(ctx0) ==
    LET r == GetNextCharacter(ctx0)
        character == r.character
        ctx == r.ctx
    IN  CASE character = EOF_CHAR -> GoResult(Done, ctx, character)
          [] character = CH_SLASH -> GoResult(LineComment, ctx, character)
          [] character = CH_STAR -> GoResult(BlockComment, ctx, character)
          [] OTHER ->
                GoResult(NormalText,
                         [OutputCharacter(ctx, CH_SLASH)
                             EXCEPT !.textIndex = ctx.textIndex - 1],
                         character)

\* Variant of State_StartComment.GoNext that writes the withheld '/' when
\* the input ends.
State_StartComment_GoNext_FlushAtEof(ctx0) ==
    LET r == GetNextCharacter(ctx0)
        character == r.character
        ctx == r.ctx
    IN  CASE character = EOF_CHAR ->
                GoResult(Done, OutputCharacter(ctx, CH_SLASH), character)
          [] character = CH_SLASH -> GoResult(LineComment, ctx, character)
          [] character = CH_STAR -> GoResult(BlockComment, ctx, character)
          [] OTHER ->
                GoResult(NormalText,
                         OutputCharacter(OutputCharacter(ctx, CH_SLASH), character),
                         character)

\* Variant of State_StartComment.GoNext that forgets the withheld slash.
State_StartComment_GoNext_DropSlash(ctx0) ==
    LET r == GetNextCharacter(ctx0)
        character == r.character
        ctx == r.ctx
    IN  CASE character = EOF_CHAR -> GoResult(Done, ctx, character)
          [] character = CH_SLASH -> GoResult(LineComment, ctx, character)
          [] character = CH_STAR -> GoResult(BlockComment, ctx, character)
          [] OTHER ->
                GoResult(NormalText, OutputCharacter(ctx, character), character)

State_StartComment_GoNext(ctx0) ==
    LET r == GetNextCharacter(ctx0)
        character == r.character
        ctx == r.ctx
    IN  CASE character = EOF_CHAR -> GoResult(Done, ctx, character)
          [] character = CH_SLASH -> GoResult(LineComment, ctx, character)
          [] character = CH_STAR -> GoResult(BlockComment, ctx, character)
          [] OTHER ->
                GoResult(NormalText,
                         OutputCharacter(OutputCharacter(ctx, CH_SLASH), character),
                         character)

\* Variant of State_LineComment.GoNext that drops the newline that ends
\* the comment.
State_LineComment_GoNext_DropNewline(ctx0) ==
    LET r == GetNextCharacter(ctx0)
        character == r.character
        ctx == r.ctx
    IN  CASE character = EOF_CHAR -> GoResult(Done, ctx, character)
          [] character = CH_NL -> GoResult(NormalText, ctx, character)
          [] OTHER -> GoResult(LineComment, ctx, character)

State_LineComment_GoNext(ctx0) ==
    LET r == GetNextCharacter(ctx0)
        character == r.character
        ctx == r.ctx
    IN  CASE character = EOF_CHAR -> GoResult(Done, ctx, character)
          [] character = CH_NL ->
                GoResult(NormalText, OutputCharacter(ctx, character), character)
          [] OTHER -> GoResult(LineComment, ctx, character)

State_BlockComment_GoNext(ctx0) ==
    LET r == GetNextCharacter(ctx0)
        character == r.character
        ctx == r.ctx
    IN  CASE character = EOF_CHAR -> GoResult(Done, ctx, character)
          [] character = CH_STAR ->
                GoResult(EndBlockComment, OutputCharacter(ctx, character), character)
          [] OTHER -> GoResult(BlockComment, ctx, character)

State_EndBlockComment_GoNext(ctx0) ==
    LET r == GetNextCharacter(ctx0)
        character == r.character
        ctx == r.ctx
    IN  CASE character = EOF_CHAR -> GoResult(Done, ctx, character)
          [] character = CH_SLASH -> GoResult(NormalText, ctx, character)
          [] OTHER -> GoResult(BlockComment, ctx, character)

\* State_Done.GoNext reads nothing and writes nothing; NoCharacter stands
\* for "no character was read by this call".
NoCharacter == -1

State_Done_GoNext(ctx0) == GoResult(Done, ctx0, NoCharacter)

\* State_Factory.CreateState followed by the call of the behaviour's GoNext:
\* dispatch on the current state.
GoNext(state, ctx) ==
    CASE state = NormalText -> State_NormalText_GoNext(ctx)
      [] state = DoubleQuotedText -> State_DoubleQuotedText_GoNext(ctx)
      [] state = SingleQuotedText -> State_SingleQuotedText_GoNext(ctx)
      [] state = EscapedDoubleQuoteText -> State_EscapedDoubleQuoteText_GoNext(ctx)
      [] state = EscapedSingleQuoteText -> State_EscapedSingleQuoteText_GoNext(ctx)
      [] state = StartComment -> State_StartComment_GoNext(ctx)
      [] state = LineComment -> State_LineComment_GoNext(ctx)
      [] state = BlockComment -> State_BlockComment_GoNext(ctx)
      [] state = EndBlockComment -> State_EndBlockComment_GoNext(ctx)
      [] state = Done -> State_Done_GoNext(ctx)

\* ------------------------------------------------------------------------
\* The program driver (program.py): tables and helpers
\* ------------------------------------------------------------------------

\* The exercise table built by Program.Run, in table order.
Exercises ==
    <<"Adapter", "Bridge", "Composite", "Decorator", "Facade", "Flyweight",
      "Proxy", "Visitor", "Command", "HandlerChain", "Interpreter",
      "Iterator", "Mediator", "Memento", "NullObject", "Observer", "State",
      "Strategy">>

\* The arguments ParseOptions treats as a request for help.
HelpFlags == {"--help", "-?", "/?"}

\* Variant of the help test that knows only the long flag.
IsHelpFlag_OnlyLong(argument) == argument = "--help"

\* ParseOptions: test of one argument.
IsHelpFlag(argument) == argument \in HelpFlags

Range(s) == {s[i] : i \in 1..Len(s)}

\* Variant of the run test without the "no names given" case.
ShouldRun_NoEmptyCheck(names, name) == name \in Range(names)

\* Program.Run: the test that decides whether one exercise of the table runs.
ShouldRun(names, name) == Len(names) = 0 \/ name \in Range(names)

\* Command-line arguments the model draws from: recognized names, a name in
\* the wrong case, an unknown name and the three help flags.
ArgNames ==
    {"Adapter", "HandlerChain", "State", "Strategy", "adapter", "Unknown",
     "--help", "-?", "/?"}

ArgLists == UNION {[1..k -> ArgNames] : k \in 0..MaxArgs}

\* ------------------------------------------------------------------------
\* State
\* ------------------------------------------------------------------------

VARIABLES
    \* --- State exercise ---
    text,           \* the text the caller wants filtered (textToFilter)
    filtered,       \* the values RemoveComments has returned so far
    pc,             \* "idle": no call in progress; "running": inside the loop
    inputText,      \* StateContext_ClassImpl._inputText
    textIndex,      \* StateContext_ClassImpl._textIndex
    outputText,     \* StateContext_ClassImpl._outputText
    currentState,   \* StateContext_ClassImpl._currentState
    prevState,      \* the state whose GoNext ran last in this call
    character,      \* the character the last GoNext read
    steps,          \* number of GoNext calls made in this call
    \* --- Program driver ---
    args,           \* the argument list given to Program.Run
    ppc,            \* "idle", "parse", "run", "done"
    argIndex,       \* position of ParseOptions' loop in args (1-based)
    exercise_names, \* Options.exercise_names
    helpShown,      \* Help() has been called
    exIndex,        \* position of Run's loop in the exercise table (1-based)
    ran,            \* the exercise callbacks called so far, in call order
    \* --- Mediator exercise ---
    users,          \* UserList._users: the user names, in list order
    groups,         \* GroupList._groups: records [groupName, users]
    medCall,        \* the last UserGroupMediator call: [op, user, group]
    medError,       \* how that call ended: "none" or the exception raised
    medReturn,      \* what that call returned: [bool, list]
    \* --- HandlerChain exercise ---
    messageHandlers, \* HandlerChain._messageHandlers: MessageWindow objects
    selected,       \* MessageWindow._selected of each window object
    sendStack,      \* the SendMessage activations in progress, outermost first
    lastSend,       \* the SendMessage activation that returned last
    chainCall,      \* the last AddHandler/RemoveHandler call: [op, window]
    chainError,     \* how that call ended: "none" or the exception raised
    addOrder,       \* the handlers of the chain in the order AddHandler took them
    lockHeld,       \* HandlerChain._messageHandlersLock is held
    lockWait,       \* a call waits for the lock, which its own thread holds
    \* --- Command exercise ---
    cmdText,        \* Command_TextObject._text
    cmdStartingText, \* Command_TextObject._startingText
    commandUndoList, \* _commandUndoList
    cmdCall,        \* the last call: "none", "Apply" or "Undo"
    cmdError,       \* how that call ended: "none" or the exception raised
    cmdExpected,    \* the commands saved and not yet undone, in order
    cmdUndone,      \* Command_Undo has been called
    cmdMixed,       \* a command was saved after a Command_Undo call
    \* --- Memento exercise ---
    memText,        \* Memento_TextObject._text
    mementoUndoList, \* _mementoUndoList: records [name, text]
    memCall,        \* the last call: "none", "Replace", "Reverse" or "Undo"
    memError,       \* how that call ended: "none" or the exception raised
    memBefore,      \* the text before each operation not yet undone, in order
    \* --- Adapter exercise ---
    memory,         \* the chunks of the opened memory block
    initialized,    \* DataReaderWriter._initialized
    adCall,         \* the last call: [op, byteOffset, data, maxBytes]
    adError,        \* how that call ended: "none" or the exception raised
    adReturn,       \* what the last Read returned
    adWrites,       \* number of Write calls that reached the block
    \* --- Composite exercise ---
    cfPath,         \* the file path the caller gives to GetEntry
    cfCalled,       \* GetEntry has been called
    cfResult,       \* how that call ended: [error, entry]
    \* --- Facade exercise ---
    deviceChains,   \* Facade_ComplicatedSubSystem._deviceChains: for each
                    \* chain index, [IsLocked, Visible (one flag per node)]
    fcCall,         \* the last call: [op, chainIndex, selectMask]
    fcLocked,       \* what LockDeviceChain returned inside that call
    fcReturn        \* what that call returned

stateVars ==
    <<text, filtered, pc, inputText, textIndex, outputText, currentState,
      prevState, character, steps>>

programVars == <<args, ppc, argIndex, exercise_names, helpShown, exIndex, ran>>

mediatorVars == <<users, groups, medCall, medError, medReturn>>

chainVars ==
    <<messageHandlers, selected, sendStack, lastSend, chainCall, chainError,
      addOrder, lockHeld, lockWait>>

commandVars ==
    <<cmdText, cmdStartingText, commandUndoList, cmdCall, cmdError,
      cmdExpected, cmdUndone, cmdMixed>>

mementoVars == <<memText, mementoUndoList, memCall, memError, memBefore>>

adapterVars == <<memory, initialized, adCall, adError, adReturn, adWrites>>

compositeVars == <<cfPath, cfCalled, cfResult>>

facadeVars == <<deviceChains, fcCall, fcLocked, fcReturn>>

\* The variables of the components modelled after the driver.
laterVars ==
    <<mediatorVars, chainVars, commandVars, mementoVars, adapterVars,
      compositeVars, facadeVars>>

vars == <<stateVars, programVars, laterVars>>

\* Everything but the Mediator exercise.
nonMediatorVars ==
    <<stateVars, programVars, chainVars, commandVars,
      mementoVars, adapterVars, compositeVars, facadeVars>>

\* Everything but the HandlerChain exercise.
nonChainVars ==
    <<stateVars, programVars, mediatorVars, commandVars,
      mementoVars, adapterVars, compositeVars, facadeVars>>

\* Everything but the Command exercise.
nonCommandVars ==
    <<stateVars, programVars, mediatorVars, chainVars,
      mementoVars, adapterVars, compositeVars, facadeVars>>

\* Everything but the Adapter exercise.
nonAdapterVars ==
    <<stateVars, programVars, mediatorVars, chainVars,
      commandVars, mementoVars, compositeVars, facadeVars>>

\* Everything but the Composite exercise.
nonCompositeVars ==
    <<stateVars, programVars, mediatorVars, chainVars, commandVars,
      mementoVars, adapterVars, facadeVars>>

\* Everything but the Memento exercise.
nonMementoVars ==
    <<stateVars, programVars, mediatorVars, chainVars,
      commandVars, adapterVars, compositeVars, facadeVars>>

\* Everything but the Command and the Memento exercises.
nonUndoListVars ==
    <<stateVars, programVars, mediatorVars, chainVars, adapterVars,
      compositeVars, facadeVars>>

\* Everything but the Facade exercise.
nonFacadeVars ==
    <<stateVars, programVars, mediatorVars, chainVars, commandVars,
      mementoVars, adapterVars, compositeVars>>

\* StateContext_ClassImpl.__init__
InitContext ==
    /\ inputText = <<>>
    /\ textIndex = 0
    /\ outputText = <<>>
    /\ currentState = Initial
    /\ prevState = Initial
    /\ character = NoCharacter
    /\ steps = 0
    /\ pc = "idle"
    /\ filtered = <<>>

\* Program() before Run is called.
InitProgram ==
    /\ ppc = "idle"
    /\ argIndex = 1
    /\ exercise_names = <<>>
    /\ helpShown = FALSE
    /\ exIndex = 1
    /\ ran = <<>>

\* No UserGroupMediator call has been made yet.
NoCall == [op |-> "none", user |-> "", group |-> ""]

\* The value of a call that returns nothing.
NoReturn == [bool |-> FALSE, list |-> <<>>]

\* UserGroupMediator.__init__: empty user and group lists.
InitMediator ==
    /\ users = <<>>
    /\ groups = <<>>
    /\ medCall = NoCall
    /\ medError = "none"
    /\ medReturn = NoReturn

\* The MessageWindow objects the callers construct.  A name is the identity
\* of the object; w2 and w3 are two objects constructed with the same
\* windowId, and w1 and w2 overlap.
WindowObjects == {"w1", "w2", "w3"}

\* One activation of HandlerChain.SendMessage: the message, the copy of the
\* handler list it iterates, the handlers whose ProcessMessage it has
\* called, what those calls returned, and whether the loop has ended with
\* break.
NewSend(type, position, handlers) ==
    [type |-> type, position |-> position, copy |-> handlers,
     offered |-> <<>>, results |-> <<>>, done |-> FALSE]

\* No SendMessage call has completed yet.
NoSend == NewSend("none", [X |-> 0, Y |-> 0], <<>>)

\* No AddHandler or RemoveHandler call has been made yet.
NoChainCall == [op |-> "none", window |-> "none"]

\* HandlerChain.__init__ and MessageWindow.__init__ (_selected = False)
InitChain ==
    /\ messageHandlers = <<>>
    /\ selected = [w \in WindowObjects |-> FALSE]
    /\ sendStack = <<>>
    /\ lastSend = NoSend
    /\ chainCall = NoChainCall
    /\ chainError = "none"
    /\ addOrder = <<>>
    /\ lockHeld = FALSE
    /\ lockWait = FALSE

\* Command_TextObject.__init__ with the given text, and the empty undo list.
InitCommandWith(startingText) ==
    /\ cmdText = startingText
    /\ cmdStartingText = startingText
    /\ commandUndoList = <<>>
    /\ cmdCall = "none"
    /\ cmdError = "none"
    /\ cmdExpected = <<>>
    /\ cmdUndone = FALSE
    /\ cmdMixed = FALSE

InitCommand == InitCommandWith(<<>>)

\* Memento_TextObject.__init__ with the given text, and the empty undo list.
InitMementoWith(startingText) ==
    /\ memText = startingText
    /\ mementoUndoList = <<>>
    /\ memCall = "none"
    /\ memError = "none"
    /\ memBefore = <<>>

InitMemento == InitMementoWith(<<>>)

\* DDR_MAX_OFFSET: the number of 32-bit chunks of a memory block.
DDR_MAX_OFFSET == 32

\* DataReaderWriter.__init__, over a memory block whose chunks are all 0.
InitAdapter ==
    /\ memory = [chunkOffset \in 0..(DDR_MAX_OFFSET - 1) |-> <<0, 0, 0, 0>>]
    /\ initialized = FALSE
    /\ adCall = [op |-> "none", byteOffset |-> 0, data |-> <<>>,
                 maxBytes |-> 0]
    /\ adError = "none"
    /\ adReturn = <<>>
    /\ adWrites = 0

\* No Composite_FileAccess.GetEntry call has been made yet; the caller holds
\* the given file path.
InitCompositeWith(filepath) ==
    /\ cfPath = filepath
    /\ cfCalled = FALSE
    /\ cfResult = [error |-> "none", entry |-> "None"]

InitComposite == InitCompositeWith(<<>>)

\* Facade_ComplicatedSubSystem.__init__: the nodes of the two device chains
\* in list order (AddNode appends; the DEVICECONTROLLER is added first).
\* Idcodes are written in decimal: 0x10101010, 0x20202020, 0x30303030,
\* 0x10101011, 0x40404040, 0x50505050.
ChainNodes ==
    (0 :> << [Name |-> "DDD_DEVCTRL0", Idcode |-> 269488144,
              DeviceType |-> "DEVICECONTROLLER", initiallyVisible |-> TRUE],
             [Name |-> "DDD_CORE0", Idcode |-> 538976288,
              DeviceType |-> "CORE", initiallyVisible |-> FALSE],
             [Name |-> "DDD_GTE0", Idcode |-> 808464432,
              DeviceType |-> "GTE", initiallyVisible |-> FALSE] >>)
    @@
    (1 :> << [Name |-> "DDD_DEVCTRL1", Idcode |-> 269488145,
              DeviceType |-> "DEVICECONTROLLER", initiallyVisible |-> TRUE],
             [Name |-> "DDD_PCH0", Idcode |-> 1077952576,
              DeviceType |-> "PCH", initiallyVisible |-> FALSE],
             [Name |-> "DDD_PMC0", Idcode |-> 1347440720,
              DeviceType |-> "PMC", initiallyVisible |-> FALSE] >>)

\* DeviceChain.__init__ followed by the AddNode calls of the constructor.
NewDeviceChain(chainIndex) ==
    [IsLocked |-> FALSE,
     Visible |-> [i \in 1..Len(ChainNodes[chainIndex]) |->
                     ChainNodes[chainIndex][i].initiallyVisible]]

NoFacadeCall == [op |-> "none", chainIndex |-> 0, selectMask |-> 0]

\* CreateLowLevelInstance: the singleton Facade_ComplicatedSubSystem.
InitFacade ==
    /\ deviceChains = [chainIndex \in DOMAIN ChainNodes |->
                          NewDeviceChain(chainIndex)]
    /\ fcCall = NoFacadeCall
    /\ fcLocked = FALSE
    /\ fcReturn = <<>>

\* Construction state of the components modelled after the driver.
InitLater ==
    /\ InitMediator
    /\ InitChain
    /\ InitCommand
    /\ InitMemento
    /\ InitAdapter
    /\ InitComposite
    /\ InitFacade

\* ------------------------------------------------------------------------
\* State exercise: StateContext_ClassImpl.RemoveComments
\* ------------------------------------------------------------------------

\* _SetNextState: the state the machine is in after _SetNextState(newState).
SetNextState(state, newState) == IF newState # state THEN newState ELSE state

\* The text of the next call: the caller's text first, then the last result.
NextArgument == IF filtered = <<>> THEN text ELSE filtered[Len(filtered)]

\* RemoveComments up to the loop: reset the context, go to NormalText.
RemoveCommentsCall ==
    /\ pc = "idle"
    /\ Len(filtered) < MaxCalls
    /\ inputText' = NextArgument
    /\ textIndex' = 0
    /\ outputText' = <<>>
    /\ currentState' = SetNextState(Initial, NormalText)
    /\ prevState' = Initial
    /\ character' = NoCharacter
    /\ steps' = 0
    /\ pc' = "running"
    /\ UNCHANGED <<text, filtered, programVars, laterVars>>

\* One iteration of the loop: GoNext of the current behaviour, _SetNextState.
RemoveCommentsStep ==
    /\ pc = "running"
    /\ currentState # Done
    /\ LET r == GoNext(currentState,
                       [inputText |-> inputText, textIndex |-> textIndex,
                        outputText |-> outputText])
       IN  /\ textIndex' = r.ctx.textIndex
           /\ outputText' = r.ctx.outputText
           /\ currentState' = SetNextState(currentState, r.nextState)
           /\ character' = r.character
    /\ prevState' = currentState
    /\ steps' = steps + 1
    /\ UNCHANGED <<text, filtered, pc, inputText, programVars, laterVars>>

\* The loop ends in Done; RemoveComments returns the output text.
RemoveCommentsReturn ==
    /\ pc = "running"
    /\ currentState = Done
    /\ filtered' = Append(filtered, outputText)
    /\ pc' = "idle"
    /\ UNCHANGED <<text, inputText, textIndex, outputText, currentState,
                   prevState, character, steps, programVars, laterVars>>

Init ==
    /\ text \in InputTexts
    /\ InitContext
    /\ args = <<>>
    /\ InitProgram
    /\ InitLater

Next ==
    \/ RemoveCommentsCall
    \/ RemoveCommentsStep
    \/ RemoveCommentsReturn

Spec == Init /\ [][Next]_vars

\* ------------------------------------------------------------------------
\* Program driver: Program.Run and Program.ParseOptions
\* ------------------------------------------------------------------------

\* Run is called: the table is built, options = Program.Options().
RunCall ==
    /\ ppc = "idle"
    /\ ppc' = "parse"
    /\ argIndex' = 1
    /\ exercise_names' = <<>>
    /\ UNCHANGED <<args, helpShown, exIndex, ran, stateVars, laterVars>>

\* ParseOptions, loop body for a help flag: show help, break, return False;
\* Run then runs nothing.
ParseOptionsHelp ==
    /\ ppc = "parse"
    /\ argIndex <= Len(args)
    /\ IsHelpFlag(args[argIndex])
    /\ helpShown' = TRUE
    /\ ppc' = "done"
    /\ UNCHANGED <<args, argIndex, exercise_names, exIndex, ran, stateVars, laterVars>>

\* ParseOptions, loop body for any other argument.
ParseOptionsAppend ==
    /\ ppc = "parse"
    /\ argIndex <= Len(args)
    /\ ~IsHelpFlag(args[argIndex])
    /\ exercise_names' = Append(exercise_names, args[argIndex])
    /\ argIndex' = argIndex + 1
    /\ UNCHANGED <<args, ppc, helpShown, exIndex, ran, stateVars, laterVars>>

\* ParseOptions returns True; Run enters its loop over the table.
ParseOptionsReturn ==
    /\ ppc = "parse"
    /\ argIndex > Len(args)
    /\ ppc' = "run"
    /\ exIndex' = 1
    /\ UNCHANGED <<args, argIndex, exercise_names, helpShown, ran, stateVars, laterVars>>

\* Run, loop body for one exercise of the table.
RunExercise ==
    /\ ppc = "run"
    /\ exIndex <= Len(Exercises)
    /\ ran' = IF ShouldRun(exercise_names, Exercises[exIndex])
              THEN Append(ran, Exercises[exIndex])
              ELSE ran
    /\ exIndex' = exIndex + 1
    /\ UNCHANGED <<args, ppc, argIndex, exercise_names, helpShown, stateVars, laterVars>>

\* Run returns.
RunReturn ==
    /\ ppc = "run"
    /\ exIndex > Len(Exercises)
    /\ ppc' = "done"
    /\ UNCHANGED <<args, argIndex, exercise_names, helpShown, exIndex, ran,
                   stateVars, laterVars>>

InitProgramSpec ==
    /\ args \in ArgLists
    /\ InitProgram
    /\ text = <<>>
    /\ InitContext
    /\ InitLater

NextProgram ==
    \/ RunCall
    \/ ParseOptionsHelp
    \/ ParseOptionsAppend
    \/ ParseOptionsReturn
    \/ RunExercise
    \/ RunReturn

SpecProgram == InitProgramSpec /\ [][NextProgram]_vars

\* The code's loop runs to completion: a call in progress keeps stepping.
SpecFair == Spec /\ WF_vars(Next)

\* ========================================================================
\* Properties
\* ========================================================================

\* No element of s is in the set S.
NoneIn(s, S) == \A i \in 1..Len(s) : s[i] \notin S

\* s contains the character x directly followed by y.
HasPair(s, x, y) == \E i \in 1..(Len(s) - 1) : s[i] = x /\ s[i + 1] = y

\* s[a..b], empty when b < a.
Slice(s, a, b) == IF b < a THEN <<>> ELSE SubSeq(s, a, b)

\* The first call has returned; filtered[1] is RemoveComments(text).
FirstReturned == Len(filtered) >= 1

RECURSIVE LiteralClose(_, _, _)
\* Index of the quote that closes the literal opened with quote q, scanning s
\* from index i; a backslash escapes the character after it.  0 if unclosed.
LiteralClose(s, q, i) ==
    IF i > Len(s) THEN 0
    ELSE IF s[i] = CH_BACKSLASH THEN LiteralClose(s, q, i + 2)
    ELSE IF s[i] = q THEN i
    ELSE LiteralClose(s, q, i + 1)

\* s is exactly one closed quoted literal.
IsClosedLiteral(s) ==
    /\ Len(s) >= 2
    /\ s[1] \in QuoteChars
    /\ LiteralClose(s, s[1], 2) = Len(s)

\* t = P + "/*" + C + "*/" + S with "/*" at index i and "*/" at index j,
\* P and S without quote, '/' or '*', and C without "*/".
IsBlockCommentForm(t, i, j) ==
    /\ i + 2 <= j
    /\ j + 1 <= Len(t)
    /\ t[i] = CH_SLASH /\ t[i + 1] = CH_STAR
    /\ t[j] = CH_STAR /\ t[j + 1] = CH_SLASH
    /\ NoneIn(Slice(t, 1, i - 1), QuoteChars \cup {CH_SLASH, CH_STAR})
    /\ NoneIn(Slice(t, j + 2, Len(t)), QuoteChars \cup {CH_SLASH, CH_STAR})
    /\ ~HasPair(Slice(t, i + 2, j - 1), CH_STAR, CH_SLASH)

\* C1: for a text P + "/*" + C + "*/" + S (P, S without quote, '/' or '*',
\* C without "*/") RemoveComments returns exactly P + S.
C1_BlockCommentRemoved ==
    FirstReturned =>
        \A i \in 1..Len(text), j \in 1..Len(text) :
            IsBlockCommentForm(text, i, j) =>
                filtered[1] = Slice(text, 1, i - 1) \o Slice(text, j + 2, Len(text))

\* t = P + "//" + C with "//" at index i, P without quote or '/', and C
\* (up to index n - 1) without newline.
IsLineCommentForm(t, i, n) ==
    /\ i + 1 <= Len(t)
    /\ i + 2 <= n
    /\ n <= Len(t) + 1
    /\ t[i] = CH_SLASH /\ t[i + 1] = CH_SLASH
    /\ NoneIn(Slice(t, 1, i - 1), QuoteChars \cup {CH_SLASH})
    /\ NoneIn(Slice(t, i + 2, n - 1), {CH_NL})

\* C2: for a text P + "//" + C (P without quote or '/', C without newline)
\* RemoveComments returns P; for P + "//" + C + newline + R, with R free of
\* quotes and '/', it returns P + newline + R: the comment is removed up to
\* the newline, the newline is kept, and a "/*" in C opens no block comment.
C2_LineCommentRemoved ==
    FirstReturned =>
        \A i \in 1..Len(text) :
            /\ IsLineCommentForm(text, i, Len(text) + 1) =>
                    filtered[1] = Slice(text, 1, i - 1)
            /\ \A n \in 1..Len(text) :
                    ( /\ IsLineCommentForm(text, i, n)
                      /\ text[n] = CH_NL
                      /\ NoneIn(Slice(text, n + 1, Len(text)),
                                QuoteChars \cup {CH_SLASH}) )
                    => filtered[1] = Slice(text, 1, i - 1) \o <<CH_NL>>
                                       \o Slice(text, n + 1, Len(text))

\* A line comment that contains "/*", is ended by a newline and is followed
\* by more text has been filtered.
C2_Witness ==
    /\ FirstReturned
    /\ \E i \in 1..Len(text), n \in 1..Len(text) :
          /\ IsLineCommentForm(text, i, n)
          /\ text[n] = CH_NL
          /\ n < Len(text)
          /\ i > 1
          /\ HasPair(Slice(text, i + 2, n - 1), CH_SLASH, CH_STAR)
          /\ NoneIn(Slice(text, n + 1, Len(text)), QuoteChars \cup {CH_SLASH})

\* C3: a closed quoted literal whose opening quote is outside a comment is
\* copied unchanged, wherever it starts: for a text P + L + S, with P free
\* of quotes, "//" and "/*" (P may end in '/'), L one closed literal and S
\* free of quotes and '/', RemoveComments returns P + L + S.
C3_LiteralCopied ==
    FirstReturned =>
        \A i \in 1..Len(text), j \in 1..Len(text) :
            ( /\ i < j
              /\ NoneIn(Slice(text, 1, i - 1), QuoteChars)
              /\ ~HasPair(Slice(text, 1, i - 1), CH_SLASH, CH_SLASH)
              /\ ~HasPair(Slice(text, 1, i - 1), CH_SLASH, CH_STAR)
              /\ IsClosedLiteral(Slice(text, i, j))
              /\ NoneIn(Slice(text, j + 1, Len(text)), QuoteChars \cup {CH_SLASH}) )
            => filtered[1] = text

\* C4: an input that is exactly one closed quoted literal is returned
\* unchanged.
C4_SingleLiteralUnchanged ==
    (FirstReturned /\ IsClosedLiteral(text)) => filtered[1] = text

\* A literal with a backslash-escaped quote and a "//" inside it has been
\* filtered.
C4_Witness ==
    /\ FirstReturned
    /\ IsClosedLiteral(text)
    /\ HasPair(text, CH_BACKSLASH, text[1])
    /\ HasPair(text, CH_SLASH, CH_SLASH)

\* C5: a text without quote characters, without "//" and without "/*" is
\* returned unchanged, also when it contains single '/' characters.
C5_PlainTextUnchanged ==
    ( /\ FirstReturned
      /\ NoneIn(text, QuoteChars)
      /\ ~HasPair(text, CH_SLASH, CH_SLASH)
      /\ ~HasPair(text, CH_SLASH, CH_STAR) )
    => filtered[1] = text

\* C6: RemoveComments(RemoveComments(t)) = RemoveComments(t).
C6_Idempotent ==
    Len(filtered) >= 2 => filtered[2] = filtered[1]

\* The second call has returned, and the first call both removed something
\* and kept something.
C6_Witness ==
    /\ Len(filtered) >= 2
    /\ filtered[1] # text
    /\ filtered[1] # <<>>
    /\ HasPair(text, CH_SLASH, CH_STAR)

\* The context as the state classes see it.
CurrentContext ==
    [inputText |-> inputText, textIndex |-> textIndex, outputText |-> outputText]

\* While a call runs, the number of GoNext calls equals the number of
\* characters consumed, plus one for the end-of-input sentinel once in Done.
C7_StepCount ==
    pc = "running" =>
        IF currentState = Done
        THEN /\ steps = Len(inputText) + 1
             /\ textIndex = Len(inputText)
             /\ character = EOF_CHAR
        ELSE /\ steps = textIndex
             /\ textIndex <= Len(inputText)

\* A GoNext step consumes exactly one character, or the sentinel at the end.
C7_StepConsumesOne ==
    steps' = steps + 1 =>
        \/ /\ textIndex < Len(inputText)
           /\ textIndex' = textIndex + 1
           /\ character' = inputText[textIndex + 1]
        \/ /\ textIndex = Len(inputText)
           /\ textIndex' = textIndex
           /\ character' = EOF_CHAR

\* C7: RemoveComments terminates for every input: each GoNext step in a
\* non-Done state consumes exactly one character or the end-of-input
\* sentinel, Done is reached after exactly len(text) + 1 steps, and the call
\* returns.
C7_Terminates ==
    /\ []C7_StepCount
    /\ [][C7_StepConsumesOne]_vars
    /\ (pc = "running") ~> (pc = "idle" /\ currentState = Done
                             /\ steps = Len(inputText) + 1)

\* A call whose input ended inside an unterminated block comment has
\* returned.
C7_Witness ==
    /\ pc = "idle"
    /\ Len(filtered) = 1
    /\ Len(text) >= 3
    /\ prevState = BlockComment
    /\ currentState = Done
    /\ steps = Len(text) + 1

\* A step that reads the end-of-input sentinel goes to Done and writes
\* nothing.
C8_EofStep ==
    (pc = "running" /\ currentState # Done /\ textIndex = Len(inputText)
        /\ steps' = steps + 1)
    => (currentState' = Done /\ outputText' = outputText
        /\ character' = EOF_CHAR)

\* Once in Done, the run enters no other state, reads nothing and writes
\* nothing; only a new RemoveComments call leaves Done.
C8_DoneAbsorbing ==
    currentState = Done =>
        \/ (currentState' = Done /\ textIndex' = textIndex
            /\ outputText' = outputText /\ steps' = steps)
        \/ (pc = "idle" /\ pc' = "running" /\ steps' = 0)

\* GoNext of the Done state returns Done and leaves the context alone.
C8_DoneGoNext ==
    currentState = Done =>
        LET r == GoNext(currentState, CurrentContext)
        IN  r.nextState = Done /\ r.ctx = CurrentContext

\* C8: from every state other than Done, reading the end-of-input sentinel
\* moves to Done and writes nothing; Done.GoNext returns Done, reads nothing
\* and writes nothing, and no other state is entered again in that run.
C8_DoneIsTerminal ==
    /\ []C8_DoneGoNext
    /\ [][C8_EofStep /\ C8_DoneAbsorbing]_vars

\* The input ended in StartComment, with a '/' withheld, and the machine is
\* in Done.
C8_Witness ==
    /\ pc = "idle"
    /\ currentState = Done
    /\ prevState = StartComment
    /\ character = EOF_CHAR
    /\ Len(inputText) >= 2

\* args contains a help flag.
HelpRequested == \E i \in 1..Len(args) : args[i] \in HelpFlags

\* Position of a name in the exercise table, 0 if it is not in the table.
TableIndex(name) ==
    IF \E i \in 1..Len(Exercises) : Exercises[i] = name
    THEN CHOOSE i \in 1..Len(Exercises) : Exercises[i] = name
    ELSE 0

\* The exercises a run with the given arguments is to call: the table,
\* restricted to the names given, or the whole table for no arguments.
ExpectedRun(a) ==
    LET Named(name) == a = <<>> \/ \E i \in 1..Len(a) : a[i] = name
    IN  SelectSeq(Exercises, Named)

\* C9: without a help flag, Run calls the callback of each recognized name
\* in args, once each and in table order, or all 18 for empty args; names
\* that match no exercise (also by case) run nothing.
C9_RunsNamedExercises ==
    (ppc = "done" /\ ~HelpRequested) =>
        /\ ran = ExpectedRun(args)
        /\ ~helpShown
        /\ Len(Exercises) = 18
        /\ args = <<>> => ran = Exercises
        /\ \A i \in 1..Len(ran) : \A j \in 1..Len(ran) :
              i < j => TableIndex(ran[i]) < TableIndex(ran[j])

\* A run has finished whose arguments name two exercises against the table
\* order and a name that matches no exercise.
C9_Witness ==
    /\ ppc = "done"
    /\ ~HelpRequested
    /\ Len(args) = 3
    /\ Len(ran) = 2
    /\ \E i \in 1..Len(args), j \in 1..Len(args) :
          i < j /\ TableIndex(args[i]) > TableIndex(args[j])
                /\ TableIndex(args[j]) > 0
    /\ \E i \in 1..Len(args) : TableIndex(args[i]) = 0

\* C10: when any argument is "--help", "-?" or "/?", Run shows the help
\* text and runs no exercise, also none named before the help flag.
C10_HelpRunsNothing ==
    HelpRequested =>
        /\ ran = <<>>
        /\ ppc = "done" => helpShown

\* A run has finished whose arguments name an exercise before a help flag.
C10_Witness ==
    /\ ppc = "done"
    /\ helpShown
    /\ Len(args) >= 2
    /\ TableIndex(args[1]) > 0
    /\ args[2] \in HelpFlags

\* The states a comment is in once its opening has been read.
CommentStates == {LineComment, BlockComment, EndBlockComment}

\* C20: a step taken in LineComment, BlockComment or EndBlockComment appends
\* nothing to the output, whatever character it reads; only NormalText and
\* the quoted-text states append.
C20_CommentStatesAppendNothing ==
    [][(RemoveCommentsStep /\ currentState \in CommentStates) =>
          outputText' = outputText]_vars

\* The character the next GoNext call reads, when input is left.
NextCharacter == inputText[textIndex + 1]

\* C21: a '/' read in NormalText is withheld: nothing is written and the
\* state becomes StartComment.  In StartComment, reading '/' goes to
\* LineComment and reading '*' goes to BlockComment, both without writing,
\* and reading any other character writes the withheld '/' followed by that
\* character and returns to NormalText.
C21_WithheldSlash ==
    [][(RemoveCommentsStep /\ textIndex < Len(inputText)) =>
          /\ (currentState = NormalText /\ NextCharacter = CH_SLASH) =>
                /\ outputText' = outputText
                /\ currentState' = StartComment
          /\ (currentState = StartComment /\ NextCharacter = CH_SLASH) =>
                /\ outputText' = outputText
                /\ currentState' = LineComment
          /\ (currentState = StartComment /\ NextCharacter = CH_STAR) =>
                /\ outputText' = outputText
                /\ currentState' = BlockComment
          /\ (currentState = StartComment
                 /\ NextCharacter \notin {CH_SLASH, CH_STAR}) =>
                /\ outputText' = outputText \o <<CH_SLASH, NextCharacter>>
                /\ currentState' = NormalText]_vars

\* The step after a withheld '/' read a double quote: the output now ends
\* with the slash and the quote, and the state is NormalText again.
C21_Witness ==
    /\ pc = "running"
    /\ prevState = StartComment
    /\ character = CH_DQUOTE
    /\ currentState = NormalText
    /\ Len(outputText) >= 3
    /\ SubSeq(outputText, Len(outputText) - 1, Len(outputText))
          = <<CH_SLASH, CH_DQUOTE>>

\* ========================================================================
\* Mediator exercise (mediator/mediator_class.py and the two list classes)
\* ========================================================================

\* The names the calls are made with; "" is the empty name.
MedUserNames == {"Arthur", "Marvin"}
MedGroupNames == {"admins", "Users"}
MedUserArgs == MedUserNames \cup {""}
MedGroupArgs == MedGroupNames \cup {""}

\* list.remove(x): the list without the first element equal to x.
ListRemove(list, x) ==
    IF \E i \in 1..Len(list) : list[i] = x
    THEN LET k == CHOOSE i \in 1..Len(list) :
                    list[i] = x /\ \A j \in 1..(i - 1) : list[j] # x
         IN  [i \in 1..(Len(list) - 1) |-> IF i < k THEN list[i] ELSE list[i + 1]]
    ELSE list

\* UserList.FindUser (through _SearchForUser): is there a user of that name.
FindUser(us, name) == \E i \in 1..Len(us) : us[i] = name

\* UserList.AddUser for a non-empty name.
UserList_AddUser(us, name) == IF ~FindUser(us, name) THEN Append(us, name) ELSE us

\* UserList.RemoveUser
UserList_RemoveUser(us, name) == IF FindUser(us, name) THEN ListRemove(us, name) ELSE us

\* GroupList.FindGroup (through _SearchForGroup): index of the first group of
\* that name, 0 if there is none.
FindGroup(gs, name) ==
    IF \E i \in 1..Len(gs) : gs[i].groupName = name
    THEN CHOOSE i \in 1..Len(gs) :
            gs[i].groupName = name /\ \A j \in 1..(i - 1) : gs[j].groupName # name
    ELSE 0

\* Group.__init__
NewGroup(name) == [groupName |-> name, users |-> <<>>]

\* GroupList.AddGroup for a non-empty name.
GroupList_AddGroup(gs, name) ==
    IF FindGroup(gs, name) = 0 THEN Append(gs, NewGroup(name)) ELSE gs

\* GroupList.RemoveGroup: list.remove(Group(name)) removes the first group
\* whose name is equal.
GroupList_RemoveGroup(gs, name) ==
    LET k == FindGroup(gs, name)
    IN  IF k # 0
        THEN [i \in 1..(Len(gs) - 1) |-> IF i < k THEN gs[i] ELSE gs[i + 1]]
        ELSE gs

\* Group.ContainsUser
ContainsUser(group, name) == \E i \in 1..Len(group.users) : group.users[i] = name

\* Variant of Group.AddUser that appends without looking for the name.
Group_AddUser_NoLookup(group, name) ==
    [group EXCEPT !.users = Append(group.users, name)]

\* Group.AddUser for a non-empty name.
Group_AddUser(group, name) ==
    IF ~ContainsUser(group, name)
    THEN [group EXCEPT !.users = Append(group.users, name)]
    ELSE group

\* Group.RemoveUser
Group_RemoveUser(group, name) ==
    IF ContainsUser(group, name)
    THEN [group EXCEPT !.users = ListRemove(group.users, name)]
    ELSE group

\* The expression Groups.GroupNames() of the mediator.  GroupNames is a
\* property of GroupList, so the expression first evaluates to the list of
\* names and then calls that list: Python raises TypeError.
GroupNamesCall(gs) ==
    [error |-> "TypeError", names |-> <<>>]

\* Outcome of a mediator call that changes groups: the exception raised
\* ("none" if it returned) and the group list afterwards.
Outcome(error, gs) == [error |-> error, groups |-> gs]

\* UserGroupMediator.AddUserToGroup
MedAddUserToGroup(us, gs, userName, groupName) ==
    IF ~FindUser(us, userName) THEN Outcome("ValueError", gs)
    ELSE IF FindGroup(gs, groupName) = 0 THEN Outcome("ValueError", gs)
    ELSE IF userName = "" THEN Outcome("ValueError", gs)
    ELSE Outcome("none",
                 [gs EXCEPT ![FindGroup(gs, groupName)] = Group_AddUser(@, userName)])

\* Variant of RemoveUserFromGroup without the test that the user exists.
MedRemoveUserFromGroup_NoUserCheck(us, gs, userName, groupName) ==
    IF FindGroup(gs, groupName) = 0 THEN Outcome("ValueError", gs)
    ELSE Outcome("none",
                 [gs EXCEPT ![FindGroup(gs, groupName)] = Group_RemoveUser(@, userName)])

\* UserGroupMediator.RemoveUserFromGroup
MedRemoveUserFromGroup(us, gs, userName, groupName) ==
    IF ~FindUser(us, userName) THEN Outcome("ValueError", gs)
    ELSE IF FindGroup(gs, groupName) = 0 THEN Outcome("ValueError", gs)
    ELSE Outcome("none",
                 [gs EXCEPT ![FindGroup(gs, groupName)] = Group_RemoveUser(@, userName)])

\* UserGroupMediator.RemoveUserFromAllGroups
MedRemoveUserFromAllGroups(us, gs, userName) ==
    IF ~FindUser(us, userName) THEN Outcome("ValueError", gs)
    ELSE LET names == GroupNamesCall(gs)
         IN  IF names.error # "none" THEN Outcome(names.error, gs)
             ELSE Outcome("none",
                          [i \in 1..Len(gs) |->
                              IF ContainsUser(gs[i], userName)
                              THEN Group_RemoveUser(gs[i], userName)
                              ELSE gs[i]])

\* A mediator call ends: record the call and how it ended.
MedEnds(op, userName, groupName, error, return) ==
    /\ medCall' = [op |-> op, user |-> userName, group |-> groupName]
    /\ medError' = error
    /\ medReturn' = return

\* UserGroupMediator.AddUser
AddUser(name) ==
    /\ users' = IF name = "" THEN users ELSE UserList_AddUser(users, name)
    /\ MedEnds("AddUser", name, "", IF name = "" THEN "ValueError" ELSE "none",
               NoReturn)
    /\ UNCHANGED <<groups, nonMediatorVars>>

\* UserGroupMediator.RemoveUser: RemoveUserFromAllGroups, then
\* Users.RemoveUser if that returned.
RemoveUser(name) ==
    LET r == MedRemoveUserFromAllGroups(users, groups, name)
    IN  /\ groups' = r.groups
        /\ users' = IF r.error = "none" THEN UserList_RemoveUser(users, name)
                    ELSE users
        /\ MedEnds("RemoveUser", name, "", r.error, NoReturn)
        /\ UNCHANGED nonMediatorVars

\* UserGroupMediator.AddGroup
AddGroup(name) ==
    /\ groups' = IF name = "" THEN groups ELSE GroupList_AddGroup(groups, name)
    /\ MedEnds("AddGroup", "", name, IF name = "" THEN "ValueError" ELSE "none",
               NoReturn)
    /\ UNCHANGED <<users, nonMediatorVars>>

\* UserGroupMediator.RemoveGroup
RemoveGroup(name) ==
    /\ groups' = GroupList_RemoveGroup(groups, name)
    /\ MedEnds("RemoveGroup", "", name, "none", NoReturn)
    /\ UNCHANGED <<users, nonMediatorVars>>

\* UserGroupMediator.AddUserToGroup
AddUserToGroup(userName, groupName) ==
    LET r == MedAddUserToGroup(users, groups, userName, groupName)
    IN  /\ groups' = r.groups
        /\ MedEnds("AddUserToGroup", userName, groupName, r.error, NoReturn)
        /\ UNCHANGED <<users, nonMediatorVars>>

\* UserGroupMediator.RemoveUserFromGroup
RemoveUserFromGroup(userName, groupName) ==
    LET r == MedRemoveUserFromGroup(users, groups, userName, groupName)
    IN  /\ groups' = r.groups
        /\ MedEnds("RemoveUserFromGroup", userName, groupName, r.error, NoReturn)
        /\ UNCHANGED <<users, nonMediatorVars>>

\* UserGroupMediator.RemoveUserFromAllGroups
RemoveUserFromAllGroups(userName) ==
    LET r == MedRemoveUserFromAllGroups(users, groups, userName)
    IN  /\ groups' = r.groups
        /\ MedEnds("RemoveUserFromAllGroups", userName, "", r.error, NoReturn)
        /\ UNCHANGED <<users, nonMediatorVars>>

\* UserGroupMediator.IsUserInGroup
IsUserInGroup(userName, groupName) ==
    /\ IF ~FindUser(users, userName) \/ FindGroup(groups, groupName) = 0
       THEN MedEnds("IsUserInGroup", userName, groupName, "ValueError", NoReturn)
       ELSE MedEnds("IsUserInGroup", userName, groupName, "none",
                    [bool |-> ContainsUser(groups[FindGroup(groups, groupName)],
                                           userName),
                     list |-> <<>>])
    /\ UNCHANGED <<users, groups, nonMediatorVars>>

\* UserGroupMediator.GetGroupsWithUser
GetGroupsWithUser(userName) ==
    /\ IF ~FindUser(users, userName)
       THEN MedEnds("GetGroupsWithUser", userName, "", "ValueError", NoReturn)
       ELSE LET names == GroupNamesCall(groups)
                InGroup(n) == ContainsUser(groups[FindGroup(groups, n)], userName)
            IN  IF names.error # "none"
                THEN MedEnds("GetGroupsWithUser", userName, "", names.error,
                             NoReturn)
                ELSE MedEnds("GetGroupsWithUser", userName, "", "none",
                             [bool |-> FALSE,
                              list |-> SelectSeq(names.names, InGroup)])
    /\ UNCHANGED <<users, groups, nonMediatorVars>>

InitMediatorSpec ==
    /\ InitMediator
    /\ InitChain
    /\ InitCommand
    /\ InitMemento
    /\ InitAdapter
    /\ InitComposite
    /\ InitFacade
    /\ text = <<>>
    /\ InitContext
    /\ args = <<>>
    /\ InitProgram

NextMediator ==
    \/ \E name \in MedUserArgs : AddUser(name)
    \/ \E name \in MedUserArgs : RemoveUser(name)
    \/ \E name \in MedGroupArgs : AddGroup(name)
    \/ \E name \in MedGroupArgs : RemoveGroup(name)
    \/ \E u \in MedUserArgs, g \in MedGroupArgs : AddUserToGroup(u, g)
    \/ \E u \in MedUserArgs, g \in MedGroupArgs : RemoveUserFromGroup(u, g)
    \/ \E u \in MedUserArgs : RemoveUserFromAllGroups(u)
    \/ \E u \in MedUserArgs, g \in MedGroupArgs : IsUserInGroup(u, g)
    \/ \E u \in MedUserArgs : GetGroupsWithUser(u)

SpecMediator == InitMediatorSpec /\ [][NextMediator]_vars

\* ------------------------------------------------------------------------
\* Properties of the Mediator exercise
\* ------------------------------------------------------------------------

\* A list without repeated elements.
NoDuplicates(list) ==
    \A i \in 1..Len(list), j \in 1..Len(list) : i # j => list[i] # list[j]

\* The group names, in list order.
GroupNameList == [i \in 1..Len(groups) |-> groups[i].groupName]

\* C11: after any sequence of mediator operations every member of a group
\* is a known user, and no user, group or group member appears twice.
C11_MembersAreKnownUsers ==
    /\ NoDuplicates(users)
    /\ NoDuplicates(GroupNameList)
    /\ \A i \in 1..Len(groups) :
          /\ NoDuplicates(groups[i].users)
          /\ \A k \in 1..Len(groups[i].users) : FindUser(users, groups[i].users[k])

\* Two users and two groups exist, one group has two members, and a
\* RemoveUser call for a member has just been made.
C11_Witness ==
    /\ Len(users) = 2
    /\ Len(groups) = 2
    /\ \E i \in 1..Len(groups) : Len(groups[i].users) = 2
    /\ medCall.op = "RemoveUser"
    /\ medCall.user \in MedUserNames

\* The calls that test the user and the group, and those that test the user.
UserAndGroupOps == {"AddUserToGroup", "RemoveUserFromGroup", "IsUserInGroup"}
UserOps == {"RemoveUser", "RemoveUserFromAllGroups", "GetGroupsWithUser"}

\* The call that ends with this step names an unknown user or group.
C12_BadCall ==
    \/ /\ medCall'.op \in UserAndGroupOps
       /\ (~FindUser(users, medCall'.user)
              \/ FindGroup(groups, medCall'.group) = 0)
    \/ /\ medCall'.op \in UserOps
       /\ ~FindUser(users, medCall'.user)

\* C12: a call that names an unknown user (or, for the calls that take a
\* group, an unknown group) raises ValueError and leaves the user list, the
\* group list and all memberships unchanged.
C12_UnknownNamesRaise ==
    [][C12_BadCall =>
          (medError' = "ValueError" /\ users' = users /\ groups' = groups)]_vars

\* RemoveUserFromGroup has just raised ValueError for a known user and an
\* unknown group, with users, groups and memberships present.
C12_Witness ==
    /\ medCall.op = "RemoveUserFromGroup"
    /\ medError = "ValueError"
    /\ FindUser(users, medCall.user)
    /\ FindGroup(groups, medCall.group) = 0
    /\ \E i \in 1..Len(groups) : ContainsUser(groups[i], medCall.user)

\* C13: RemoveUser(name) for a known user completes without error; after it
\* the user is in no group and not in the user list, and all other users,
\* all groups and all other memberships are as before.
C13_RemoveUserRemoves ==
    [][(medCall'.op = "RemoveUser" /\ FindUser(users, medCall'.user)) =>
          /\ medError' = "none"
          /\ users' = ListRemove(users, medCall'.user)
          /\ groups' = [i \in 1..Len(groups) |->
                           Group_RemoveUser(groups[i], medCall'.user)]]_vars

\* ------------------------------------------------------------------------
\* HandlerChain exercise: HandlerChain, MessageWindow and its handlers
\* ------------------------------------------------------------------------

\* WindowRectangle.MINIMUM_WIDTH, MINIMUM_HEIGHT
MINIMUM_WIDTH == 4
MINIMUM_HEIGHT == 4

\* MessageWindow.CLOSE_WIDTH, CLOSE_HEIGHT
CLOSE_WIDTH == 2
CLOSE_HEIGHT == 2

\* max([a, b])
Max(a, b) == IF a >= b THEN a ELSE b

\* MessageType
MessageTypes == {"Close", "ButtonDown", "ButtonUp"}

\* The constructor arguments of each MessageWindow object.
WindowArgs ==
    [w1 |-> [windowId |-> 1, x |-> 0, y |-> 0, width |-> 10, height |-> 10],
     w2 |-> [windowId |-> 2, x |-> 5, y |-> 0, width |-> 10, height |-> 10],
     w3 |-> [windowId |-> 2, x |-> 20, y |-> 0, width |-> 5, height |-> 5]]

\* MessagePosition values used in messages: inside w1 and w2 and in the
\* close box of w1, inside w2 only and in its close box, inside w1 and w2
\* away from the close boxes, and inside the close box of w3 (outside w1
\* and w2).
MessagePositions ==
    {[X |-> 9, Y |-> 1], [X |-> 14, Y |-> 1], [X |-> 6, Y |-> 6],
     [X |-> 23, Y |-> 1]}

\* WindowRectangle.__init__
WindowRectangle(x, y, width, height) ==
    LET w == Max(width, MINIMUM_WIDTH)
        h == Max(height, MINIMUM_HEIGHT)
    IN  [Left |-> x, Top |-> y, Right |-> x + w, Bottom |-> y + h]

\* WindowRectangle.PointInside
PointInside(rect, point) ==
    /\ point.X >= rect.Left
    /\ point.X < rect.Right
    /\ point.Y >= rect.Top
    /\ point.Y < rect.Bottom

\* MessageWindow._windowBox
WindowBox(window) ==
    LET a == WindowArgs[window]
    IN  WindowRectangle(a.x, a.y, a.width, a.height)

\* MessageWindow._closeBox
CloseBox(window) ==
    WindowRectangle(WindowBox(window).Right - CLOSE_WIDTH,
                    WindowBox(window).Top, CLOSE_WIDTH, CLOSE_HEIGHT)

\* MessageWindow._PointInWindow
PointInWindow(window, position) == PointInside(WindowBox(window), position)

\* MessageWindow._PointInCloseBox
PointInCloseBox(window, position) == PointInside(CloseBox(window), position)

\* MessageWindow.ID
ID(window) == WindowArgs[window].windowId

\* The search loops of AddHandler and RemoveHandler: some handler of the
\* list has this ID.
HasHandlerWithID(handlers, id) ==
    \E i \in 1..Len(handlers) : ID(handlers[i]) = id

HandlerChain_AddHandler_NoIdCheck(handlers, window) ==
    Append(handlers, window)

\* HandlerChain.AddHandler: append unless a handler with the same ID is
\* already in the list.
HandlerChain_AddHandler(handlers, window) ==
    IF ~HasHandlerWithID(handlers, ID(window))
    THEN Append(handlers, window)
    ELSE handlers

\* HandlerChain.RemoveHandler: when some handler has the ID of the argument,
\* the ARGUMENT is removed with list.remove, which compares MessageWindow
\* objects by identity and raises ValueError when the object is not there.
HandlerChain_RemoveHandler(handlers, window) ==
    IF HasHandlerWithID(handlers, ID(window))
    THEN IF \E i \in 1..Len(handlers) : handlers[i] = window
         THEN [error |-> "none", handlers |-> ListRemove(handlers, window)]
         ELSE [error |-> "ValueError", handlers |-> handlers]
    ELSE [error |-> "none", handlers |-> handlers]

\* MessageWindowHandlers._HandleButtonDownMessage: the new _selected.
\* The handler always returns False.
HandleButtonDownMessage(window, isSelected, position) ==
    IF PointInWindow(window, position)
    THEN (IF ~isSelected THEN TRUE ELSE isSelected)
    ELSE (IF isSelected THEN FALSE ELSE isSelected)

\* MessageWindowHandlers._HandleButtonUpMessage: what it returns, and
\* whether it sends a Close message first.
HandleButtonUpMessage(window, isSelected, position) ==
    [processed |-> isSelected /\ PointInWindow(window, position),
     sendClose |-> /\ isSelected
                   /\ PointInWindow(window, position)
                   /\ PointInCloseBox(window, position)]

\* MessageWindowHandlers._HandleCloseMessage: returns True, after removing
\* the window from the chain, exactly when the window is selected.
HandleCloseMessage(window, isSelected) == isSelected

SendMessage_LoopEnds_NoBreak(messageProcessed) == FALSE

\* HandlerChain.SendMessage: `if window.ProcessMessage(message): break`
SendMessage_LoopEnds(messageProcessed) == messageProcessed

\* The innermost SendMessage activation.
TopSend == sendStack[Len(sendStack)]

ReplaceTop(stack, send) == [stack EXCEPT ![Len(stack)] = send]

\* ProcessMessage returned to the loop of SendMessage.
Returned(send, messageProcessed) ==
    [send EXCEPT !.results = Append(@, messageProcessed),
                 !.done = SendMessage_LoopEnds(messageProcessed)]

SendMessage_LockAfterCopy_StillHeld(held) == held

\* HandlerChain.SendMessage: the `with` block ends after the copy, before
\* the loop, and leaves the lock released.
SendMessage_LockAfterCopy(held) == FALSE

\* A call reached `with self._messageHandlersLock` while the lock is held:
\* Lock is not reentrant, so the calling thread waits for itself.
WaitsForLock ==
    /\ lockHeld
    /\ lockWait' = TRUE
    /\ UNCHANGED <<messageHandlers, selected, sendStack, lastSend, chainError,
                   addOrder, lockHeld>>

\* HandlerChain.AddHandler(window), called from outside a handler.
AddHandler(window) ==
    /\ sendStack = <<>>
    /\ ~lockWait
    /\ chainCall' = [op |-> "AddHandler", window |-> window]
    /\ \/ WaitsForLock
       \/ /\ ~lockHeld
          /\ messageHandlers' = HandlerChain_AddHandler(messageHandlers, window)
          /\ addOrder' = IF HasHandlerWithID(messageHandlers, ID(window))
                         THEN addOrder
                         ELSE Append(addOrder, window)
          /\ chainError' = "none"
          /\ UNCHANGED <<selected, sendStack, lastSend, lockHeld, lockWait>>
    /\ UNCHANGED nonChainVars

\* HandlerChain.RemoveHandler(window), called from outside a handler.
RemoveHandler(window) ==
    /\ sendStack = <<>>
    /\ ~lockWait
    /\ chainCall' = [op |-> "RemoveHandler", window |-> window]
    /\ \/ WaitsForLock
       \/ /\ ~lockHeld
          /\ LET r == HandlerChain_RemoveHandler(messageHandlers, window)
             IN  /\ messageHandlers' = r.handlers
                 /\ chainError' = r.error
                 /\ addOrder' = IF r.handlers # messageHandlers
                                THEN ListRemove(addOrder, window)
                                ELSE addOrder
          /\ UNCHANGED <<selected, sendStack, lastSend, lockHeld, lockWait>>
    /\ UNCHANGED nonChainVars

\* HandlerChain.SendMessage(message) called from outside a handler: the
\* handler list is copied under the lock, then the loop starts.
SendMessage(type, position) ==
    /\ sendStack = <<>>
    /\ ~lockWait
    /\ \/ WaitsForLock
       \/ /\ ~lockHeld
          /\ sendStack' = <<NewSend(type, position, messageHandlers)>>
          /\ lockHeld' = SendMessage_LockAfterCopy(TRUE)
          /\ UNCHANGED <<messageHandlers, selected, lastSend, chainError,
                         addOrder, lockWait>>
    /\ UNCHANGED <<chainCall, nonChainVars>>

\* One iteration of the loop of SendMessage: MessageWindow.ProcessMessage
\* of the next handler of the copy.  A ButtonUp handler that sends Close
\* starts a nested SendMessage and waits for it; a Close handler calls
\* RemoveHandler.  Both take the lock of the chain.
ProcessMessage ==
    /\ sendStack # <<>>
    /\ ~lockWait
    /\ ~TopSend.done
    /\ Len(TopSend.offered) = Len(TopSend.results)
    /\ Len(TopSend.offered) < Len(TopSend.copy)
    /\ LET send == TopSend
           window == send.copy[Len(send.offered) + 1]
           called == [send EXCEPT !.offered = Append(@, window)]
           up == HandleButtonUpMessage(window, selected[window], send.position)
           rm == HandlerChain_RemoveHandler(messageHandlers, window)
       IN  CASE send.type = "ButtonDown" ->
                  /\ selected' = [selected EXCEPT ![window] =
                        HandleButtonDownMessage(window, @, send.position)]
                  /\ sendStack' = ReplaceTop(sendStack, Returned(called, FALSE))
                  /\ UNCHANGED <<messageHandlers, chainError, addOrder,
                                 lockHeld, lockWait>>
            [] send.type = "ButtonUp" ->
                  IF up.sendClose
                  THEN IF lockHeld
                       THEN WaitsForLock
                       ELSE /\ sendStack' =
                                  Append(ReplaceTop(sendStack, called),
                                         NewSend("Close", send.position,
                                                 messageHandlers))
                            /\ lockHeld' = SendMessage_LockAfterCopy(TRUE)
                            /\ UNCHANGED <<messageHandlers, selected,
                                           chainError, addOrder, lockWait>>
                  ELSE /\ sendStack' = ReplaceTop(sendStack,
                                          Returned(called, up.processed))
                       /\ UNCHANGED <<messageHandlers, selected, chainError,
                                      addOrder, lockHeld, lockWait>>
            [] send.type = "Close" ->
                  IF HandleCloseMessage(window, selected[window])
                  THEN IF lockHeld
                       THEN WaitsForLock
                       ELSE IF rm.error = "none"
                            THEN /\ messageHandlers' = rm.handlers
                                 /\ addOrder' = ListRemove(addOrder, window)
                                 /\ selected' =
                                       [selected EXCEPT ![window] = FALSE]
                                 /\ sendStack' = ReplaceTop(sendStack,
                                                    Returned(called, TRUE))
                                 /\ UNCHANGED <<chainError, lockHeld, lockWait>>
                            ELSE \* the exception leaves every SendMessage
                                 /\ sendStack' = <<>>
                                 /\ chainError' = rm.error
                                 /\ UNCHANGED <<messageHandlers, selected,
                                                addOrder, lockHeld, lockWait>>
                  ELSE /\ sendStack' =
                             ReplaceTop(sendStack, Returned(called, FALSE))
                       /\ UNCHANGED <<messageHandlers, selected, chainError,
                                      addOrder, lockHeld, lockWait>>
    /\ UNCHANGED <<lastSend, chainCall, nonChainVars>>

\* SendMessage returns: the loop has ended by break or by exhausting the
\* copy.  A ButtonUp handler waiting for its Close message then returns
\* True (messageProcessed was set before the Close was sent).
SendMessageReturn ==
    /\ sendStack # <<>>
    /\ ~lockWait
    /\ Len(TopSend.offered) = Len(TopSend.results)
    /\ TopSend.done \/ Len(TopSend.offered) = Len(TopSend.copy)
    /\ lastSend' = TopSend
    /\ LET rest == SubSeq(sendStack, 1, Len(sendStack) - 1)
       IN  sendStack' = IF rest = <<>>
                        THEN rest
                        ELSE ReplaceTop(rest, Returned(rest[Len(rest)], TRUE))
    /\ UNCHANGED <<messageHandlers, selected, chainCall, chainError,
                   addOrder, lockHeld, lockWait, nonChainVars>>

InitChainSpec ==
    /\ InitChain
    /\ InitMediator
    /\ InitCommand
    /\ InitMemento
    /\ InitAdapter
    /\ InitComposite
    /\ InitFacade
    /\ text = <<>>
    /\ InitContext
    /\ args = <<>>
    /\ InitProgram

NextChain ==
    \/ \E window \in WindowObjects : AddHandler(window)
    \/ \E window \in WindowObjects : RemoveHandler(window)
    \/ \E type \in MessageTypes, position \in MessagePositions :
          SendMessage(type, position)
    \/ ProcessMessage
    \/ SendMessageReturn

SpecChain == InitChainSpec /\ [][NextChain]_vars

\* The single thread of the exercise keeps running: a loop iteration or a
\* return that can be taken is taken.
SpecChainFair ==
    SpecChain /\ WF_vars(ProcessMessage) /\ WF_vars(SendMessageReturn)

\* ------------------------------------------------------------------------
\* Properties of the HandlerChain exercise
\* ------------------------------------------------------------------------

\* No two handlers of the list have the same ID.
UniqueIDs(handlers) ==
    \A i, j \in 1..Len(handlers) :
        ID(handlers[i]) = ID(handlers[j]) => i = j

\* C14: the chain holds at most one handler per ID.  AddHandler of a handler
\* whose ID is already in the chain leaves the list unchanged, AddHandler of
\* a handler with a new ID appends it at the end, and RemoveHandler of a
\* handler whose ID is not in the chain leaves the list unchanged and raises
\* nothing.
C14_OneHandlerPerID ==
    /\ [](UniqueIDs(messageHandlers))
    /\ [][/\ \A window \in WindowObjects :
               AddHandler(window) =>
                   IF HasHandlerWithID(messageHandlers, ID(window))
                   THEN messageHandlers' = messageHandlers
                   ELSE messageHandlers' = Append(messageHandlers, window)
          /\ \A window \in WindowObjects :
               (RemoveHandler(window)
                  /\ ~HasHandlerWithID(messageHandlers, ID(window))) =>
                   /\ messageHandlers' = messageHandlers
                   /\ chainError' = "none"]_vars

\* AddHandler was called with w3 while w2, a different object with the same
\* ID, was in the chain, and the chain kept w1 and w2 only.
C14_Witness ==
    /\ chainCall = [op |-> "AddHandler", window |-> "w3"]
    /\ messageHandlers = <<"w1", "w2">>

\* The handlers were offered the message in the order of the copy, each at
\* most once, and no handler was offered it after one returned True.
OfferedInOrder(send) ==
    /\ Len(send.offered) <= Len(send.copy)
    /\ send.offered = SubSeq(send.copy, 1, Len(send.offered))
    /\ \A i \in 1..Len(send.results) :
          send.results[i] => i = Len(send.offered)

\* A completed SendMessage stopped at a handler that returned True, or
\* offered the message to every handler.
OfferedToAll(send) ==
    \/ send.results # <<>> /\ send.results[Len(send.results)]
    \/ send.offered = send.copy

\* C15: SendMessage offers the message to the handlers in the order they
\* were added and stops at the first handler whose ProcessMessage returns
\* True; later handlers never see the message, and when no handler returns
\* True every handler of the chain sees it exactly once.
C15_StopsAtFirstTrue ==
    /\ [](/\ messageHandlers = addOrder
          /\ \A i \in 1..Len(sendStack) : OfferedInOrder(sendStack[i])
          /\ OfferedInOrder(lastSend)
          /\ OfferedToAll(lastSend))
    /\ [][\A type \in MessageTypes, position \in MessagePositions :
             SendMessage(type, position) =>
                 sendStack'[1].copy = addOrder]_vars

\* A ButtonUp message was taken by the first of two handlers, and the second
\* handler was never offered it.
C15_Witness ==
    /\ lastSend.type = "ButtonUp"
    /\ Len(lastSend.copy) = 2
    /\ lastSend.offered = <<lastSend.copy[1]>>
    /\ lastSend.results = <<TRUE>>

ClosingWindow == sendStack[1].offered[Len(sendStack[1].offered)]

\* A Close message sent by a ButtonUp handler is running or returns.
CloseFromButtonUp ==
    /\ Len(sendStack) = 2
    /\ sendStack[1].type = "ButtonUp"
    /\ sendStack[2].type = "Close"

\* C23: when a ButtonUp message is handled by a selected window W at a
\* position inside the close box of W, the Close message it sends removes W
\* and no other window from the handler chain and deselects W, whatever the
\* window layout and the chain order.
C23_CloseRemovesTheClickedWindow ==
    /\ [][(CloseFromButtonUp /\ ProcessMessage) =>
             /\ messageHandlers' \in
                   {messageHandlers, ListRemove(messageHandlers, ClosingWindow)}
             /\ \A window \in WindowObjects \ {ClosingWindow} :
                   selected'[window] = selected[window]]_vars
    /\ [][(CloseFromButtonUp /\ SendMessageReturn) =>
             /\ ClosingWindow \notin Range(messageHandlers')
             /\ ~selected'[ClosingWindow]]_vars

\* ------------------------------------------------------------------------
\* Command exercise: Command_TextObject, Command and the undo list
\* ------------------------------------------------------------------------

\* What str.replace(searchPattern, replaceText) computes: every
\* non-overlapping occurrence, found left to right, is replaced; an empty
\* pattern matches before every character and at the end.
RECURSIVE StrReplace(_, _, _)
StrReplace(s, searchPattern, replaceText) ==
    IF searchPattern = <<>>
    THEN IF s = <<>>
         THEN replaceText
         ELSE replaceText \o <<Head(s)>>
                 \o StrReplace(Tail(s), searchPattern, replaceText)
    ELSE IF Len(s) < Len(searchPattern)
         THEN s
         ELSE IF SubSeq(s, 1, Len(searchPattern)) = searchPattern
              THEN replaceText
                      \o StrReplace(SubSeq(s, Len(searchPattern) + 1, Len(s)),
                                    searchPattern, replaceText)
              ELSE <<Head(s)>>
                      \o StrReplace(Tail(s), searchPattern, replaceText)

\* What list.reverse followed by "".join computes.
StrReverse(s) == [i \in 1..Len(s) |-> s[Len(s) + 1 - i]]

\* Command_Operation_Replace: Command_TextObject.Text is a method, so
\* source.Text.replace looks up `replace` on a bound method and raises
\* AttributeError before anything is assigned.
Command_Operation_Replace(textValue, searchPattern, replaceText) ==
    [error |-> "AttributeError", text |-> textValue]

\* Command_Operation_Reverse: iterating over the method source.Text raises
\* TypeError before anything is assigned.
Command_Operation_Reverse(textValue) ==
    [error |-> "TypeError", text |-> textValue]

\* Command.__init__: two arguments make a two-parameter command, none a
\* no-parameter command.
ReplaceCommand(searchPattern, replaceText) ==
    [commandName |-> "Replace", arguments |-> <<searchPattern, replaceText>>]

ReverseCommand == [commandName |-> "Reverse", arguments |-> <<>>]

\* Command.Execute on a receiver whose _text is textValue.
Command_Execute(command, textValue) ==
    IF Len(command.arguments) = 2
    THEN Command_Operation_Replace(textValue, command.arguments[1],
                                   command.arguments[2])
    ELSE Command_Operation_Reverse(textValue)

\* The loop of Command_Undo: execute the commands in order; an exception
\* ends the loop.
RECURSIVE ExecuteAll(_, _)
ExecuteAll(commands, textValue) ==
    IF commands = <<>>
    THEN [error |-> "none", text |-> textValue]
    ELSE LET r == Command_Execute(Head(commands), textValue)
         IN  IF r.error # "none"
             THEN r
             ELSE ExecuteAll(Tail(commands), r.text)

\* The most commands the callers save before undoing.
MaxCommands == 3

\* The texts the Command_TextObject is constructed with, and the search
\* patterns and replacements of the Replace commands.
CommandStartingTexts == {<<CH_a, CH_b>>, <<CH_b, CH_a, CH_a>>}
CommandPatterns == {<<CH_a>>, <<CH_a, CH_b>>}
CommandReplacements == {<<>>, <<CH_b>>}

\* Command_ApplyReplaceCommand / Command_ApplyReverseCommand: the command is
\* appended to the undo list, then executed.
Command_Save_And_Execute_Effect(command) ==
    /\ Len(commandUndoList) < MaxCommands
    /\ commandUndoList' = Append(commandUndoList, command)
    /\ LET r == Command_Execute(command, cmdText)
       IN  /\ cmdText' = r.text
           /\ cmdError' = r.error
    /\ cmdCall' = "Apply"
    /\ cmdExpected' = Append(cmdExpected, command)
    /\ cmdMixed' = (cmdMixed \/ cmdUndone)
    /\ UNCHANGED <<cmdStartingText, cmdUndone>>

\* The same call with the rest of the program left alone.
Command_Save_And_Execute(command) ==
    Command_Save_And_Execute_Effect(command) /\ UNCHANGED nonCommandVars

Command_ApplyReplaceCommand(searchPattern, replaceText) ==
    Command_Save_And_Execute(ReplaceCommand(searchPattern, replaceText))

Command_ApplyReverseCommand == Command_Save_And_Execute(ReverseCommand)

\* Command_Undo: with a non-empty undo list, reset the text, drop the last
\* command and execute the remaining ones again.
Command_Undo_Effect ==
    /\ IF commandUndoList # <<>>
       THEN LET rest == SubSeq(commandUndoList, 1, Len(commandUndoList) - 1)
                r == ExecuteAll(rest, cmdStartingText)
            IN  /\ commandUndoList' = rest
                /\ cmdText' = r.text
                /\ cmdError' = r.error
       ELSE /\ cmdError' = "none"
            /\ UNCHANGED <<commandUndoList, cmdText>>
    /\ cmdCall' = "Undo"
    /\ cmdExpected' = IF cmdExpected = <<>>
                      THEN cmdExpected
                      ELSE SubSeq(cmdExpected, 1, Len(cmdExpected) - 1)
    /\ cmdUndone' = TRUE
    /\ UNCHANGED <<cmdStartingText, cmdMixed>>

Command_Undo == Command_Undo_Effect /\ UNCHANGED nonCommandVars

InitCommandSpec ==
    /\ \E t \in CommandStartingTexts : InitCommandWith(t)
    /\ InitMediator
    /\ InitChain
    /\ InitMemento
    /\ InitAdapter
    /\ InitComposite
    /\ InitFacade
    /\ text = <<>>
    /\ InitContext
    /\ args = <<>>
    /\ InitProgram

NextCommand ==
    \/ \E p \in CommandPatterns, r \in CommandReplacements :
          Command_ApplyReplaceCommand(p, r)
    \/ Command_ApplyReverseCommand
    \/ Command_Undo

SpecCommand == InitCommandSpec /\ [][NextCommand]_vars

\* ------------------------------------------------------------------------
\* Properties of the Command exercise
\* ------------------------------------------------------------------------

\* The text a command is meant to produce from textValue.
Applied(command, textValue) ==
    IF command.commandName = "Replace"
    THEN StrReplace(textValue, command.arguments[1], command.arguments[2])
    ELSE StrReverse(textValue)

\* The starting text with the commands applied in order.
RECURSIVE AppliedAll(_, _)
AppliedAll(commands, textValue) ==
    IF commands = <<>>
    THEN textValue
    ELSE AppliedAll(Tail(commands), Applied(Head(commands), textValue))

\* C16: after commands c1..cn have been saved and executed and Command_Undo
\* has then been called k times, the text is the starting text with
\* c1..c(n-k) applied in order; Command_Undo with an empty undo list changes
\* nothing.
C16_UndoReplaysCommands ==
    /\ [](~cmdMixed => cmdText = AppliedAll(cmdExpected, cmdStartingText))
    /\ [][(Command_Undo /\ commandUndoList = <<>>) =>
             UNCHANGED <<cmdText, commandUndoList>>]_vars

\* ------------------------------------------------------------------------
\* Memento exercise: Memento_TextObject and the undo list of mementos
\*
\* The class body of IMemento stacks @abstractmethod above @property, which
\* raises AttributeError when memento.py is imported.  The functions below
\* are modelled as their code runs once the classes exist.
\* ------------------------------------------------------------------------

\* Memento_Operation_Replace: Memento_TextObject has no SetText, and the
\* attribute is looked up before the argument is evaluated, so the call
\* raises AttributeError and nothing is assigned.
Memento_Operation_Replace(textValue, searchPattern, replaceText) ==
    [error |-> "AttributeError", text |-> textValue]

\* Memento_Operation_Reverse: Memento_TextObject.Text is a property, so
\* source.Text() calls a str and raises TypeError before anything is
\* assigned.
Memento_Operation_Reverse(textValue) ==
    [error |-> "TypeError", text |-> textValue]

\* Memento_TextObject.GetMemento
GetMemento(textValue, operationName) ==
    [name |-> operationName, text |-> textValue]

\* Memento_TextObject.RestoreMemento: the new _text.
RestoreMemento(textValue, memento) == memento.text

\* The print of Memento_Undo: lastMemento.Name is a property, so
\* lastMemento.Name() calls a str and raises TypeError.
Memento_Undo_Print(memento) == "TypeError"

\* The most operations the callers apply before undoing.
MaxOperations == 3

\* The texts the Memento_TextObject is constructed with, and the search
\* patterns and replacements of the Replace operations.
MementoStartingTexts == {<<CH_a, CH_b>>, <<CH_b, CH_a, CH_a>>}
MementoPatterns == {<<CH_a>>, <<CH_a, CH_b>>}
MementoReplacements == {<<>>, <<CH_b>>}

\* Memento_SaveForUndo: the undo list with a memento of the text appended.
Memento_SaveForUndo(undoList, textValue, operationName) ==
    Append(undoList, GetMemento(textValue, operationName))

\* Memento_ApplyReplaceOperation: save a memento, then run the operation.
Memento_ApplyReplaceOperation_Effect(searchPattern, replaceText) ==
    /\ Len(mementoUndoList) < MaxOperations
    /\ mementoUndoList' =
          Memento_SaveForUndo(mementoUndoList, memText,
                              <<"Replace", searchPattern, replaceText>>)
    /\ LET r == Memento_Operation_Replace(memText, searchPattern, replaceText)
       IN  /\ memText' = r.text
           /\ memError' = r.error
    /\ memCall' = "Replace"
    /\ memBefore' = Append(memBefore, memText)

Memento_ApplyReplaceOperation(searchPattern, replaceText) ==
    /\ Memento_ApplyReplaceOperation_Effect(searchPattern, replaceText)
    /\ UNCHANGED nonMementoVars

\* Memento_ApplyReverseOperation: save a memento, then run the operation.
Memento_ApplyReverseOperation_Effect ==
    /\ Len(mementoUndoList) < MaxOperations
    /\ mementoUndoList' =
          Memento_SaveForUndo(mementoUndoList, memText, <<"Reverse">>)
    /\ LET r == Memento_Operation_Reverse(memText)
       IN  /\ memText' = r.text
           /\ memError' = r.error
    /\ memCall' = "Reverse"
    /\ memBefore' = Append(memBefore, memText)

Memento_ApplyReverseOperation ==
    Memento_ApplyReverseOperation_Effect /\ UNCHANGED nonMementoVars

\* Memento_Undo: with a non-empty undo list, pop the last memento, restore
\* it and print the result.
Memento_Undo_Effect ==
    /\ IF mementoUndoList # <<>>
       THEN LET lastMemento == mementoUndoList[Len(mementoUndoList)]
            IN  /\ mementoUndoList' =
                      SubSeq(mementoUndoList, 1, Len(mementoUndoList) - 1)
                /\ memText' = RestoreMemento(memText, lastMemento)
                /\ memError' = Memento_Undo_Print(lastMemento)
       ELSE /\ memError' = "none"
            /\ UNCHANGED <<mementoUndoList, memText>>
    /\ memCall' = "Undo"
    /\ memBefore' = IF memBefore = <<>>
                    THEN memBefore
                    ELSE SubSeq(memBefore, 1, Len(memBefore) - 1)

Memento_Undo == Memento_Undo_Effect /\ UNCHANGED nonMementoVars

InitMementoSpec ==
    /\ \E t \in MementoStartingTexts : InitMementoWith(t)
    /\ InitMediator
    /\ InitChain
    /\ InitCommand
    /\ InitAdapter
    /\ InitComposite
    /\ InitFacade
    /\ text = <<>>
    /\ InitContext
    /\ args = <<>>
    /\ InitProgram

NextMemento ==
    \/ \E p \in MementoPatterns, r \in MementoReplacements :
          Memento_ApplyReplaceOperation(p, r)
    \/ Memento_ApplyReverseOperation
    \/ Memento_Undo

SpecMemento == InitMementoSpec /\ [][NextMemento]_vars

\* ------------------------------------------------------------------------
\* Properties of the Memento exercise
\* ------------------------------------------------------------------------

\* C17: undo is last-in first-out.  A Memento_Undo call with a non-empty undo
\* list completes, leaves the text at the value it had just before the most
\* recent operation not yet undone and removes that one memento; with an
\* empty undo list it changes nothing.
C17_UndoIsLifo ==
    [][Memento_Undo =>
          IF mementoUndoList # <<>>
          THEN /\ memError' = "none"
               /\ memText' = memBefore[Len(memBefore)]
               /\ mementoUndoList' =
                     SubSeq(mementoUndoList, 1, Len(mementoUndoList) - 1)
          ELSE UNCHANGED <<memText, mementoUndoList>>]_vars

\* ------------------------------------------------------------------------
\* The Command and the Memento undo lists side by side: one text object of
\* each exercise, constructed with the same text, is given the same
\* operations and undos, one call on each per step.
\* ------------------------------------------------------------------------

Both_ApplyReplace(searchPattern, replaceText) ==
    /\ Command_Save_And_Execute_Effect(
          ReplaceCommand(searchPattern, replaceText))
    /\ Memento_ApplyReplaceOperation_Effect(searchPattern, replaceText)
    /\ UNCHANGED nonUndoListVars

Both_ApplyReverse ==
    /\ Command_Save_And_Execute_Effect(ReverseCommand)
    /\ Memento_ApplyReverseOperation_Effect
    /\ UNCHANGED nonUndoListVars

Both_Undo ==
    /\ Command_Undo_Effect
    /\ Memento_Undo_Effect
    /\ UNCHANGED nonUndoListVars

InitUndoListsSpec ==
    /\ \E t \in CommandStartingTexts :
          InitCommandWith(t) /\ InitMementoWith(t)
    /\ InitMediator
    /\ InitChain
    /\ InitAdapter
    /\ InitComposite
    /\ InitFacade
    /\ text = <<>>
    /\ InitContext
    /\ args = <<>>
    /\ InitProgram

NextUndoLists ==
    \/ \E p \in CommandPatterns, r \in CommandReplacements :
          Both_ApplyReplace(p, r)
    \/ Both_ApplyReverse
    \/ Both_Undo

SpecUndoLists == InitUndoListsSpec /\ [][NextUndoLists]_vars

\* C24: the Command undo list and the Memento undo list are equivalent.
\* From the same text and empty undo lists, after the same sequence of
\* Replace and Reverse operations and undos, carried out by the Command
\* calls on one object and by the Memento calls on the other, the two text
\* objects hold the same text after every step.
C24_UndoListsEquivalent ==
    /\ [](cmdText = memText)
    /\ [](cmdError = "none" /\ memError = "none")

\* ------------------------------------------------------------------------
\* Adapter exercise: DataReaderWriter over the chunked memory block
\* ------------------------------------------------------------------------

\* sizeof(c_uint32)
SIZEOF_UINT32 == 4

\* A 32-bit value is held as its four bytes, lowest first: <<b0, b1, b2, b3>>
\* stands for b0 + 256 * b1 + 256^2 * b2 + 256^3 * b3.
ZeroValue == <<0, 0, 0, 0>>

\* value.value & 0xff
LowByte(value) == value[1]

\* value.value >>= 8
ShiftRight8(value) == <<value[2], value[3], value[4], 0>>

\* value.value & (byteMask ^ 0xffffffff), then | (byte << (byteOffsetInChunk
\* * 8)), where byteMask is 0xff << (byteOffsetInChunk * 8) and byte is below
\* 256: the byte at byteOffsetInChunk is replaced.
ReplaceByte(value, byteOffsetInChunk, byte) ==
    [value EXCEPT ![byteOffsetInChunk + 1] = byte]

\* ddr_getdatachunk: the chunk at chunkOffset, or DDR_ErrorCode_Invalid_Offset
\* outside 0..DDR_MAX_OFFSET-1.
ddr_getdatachunk(mem, chunkOffset, oldValue) ==
    IF chunkOffset >= 0 /\ chunkOffset < DDR_MAX_OFFSET
    THEN [error |-> "Success", value |-> mem[chunkOffset]]
    ELSE [error |-> "Invalid_Offset", value |-> oldValue]

\* ddr_setdatachunk: c_uint32(value) is stored at chunkOffset (the value
\* never has more than four bytes).
ddr_setdatachunk(mem, chunkOffset, value) ==
    IF chunkOffset >= 0 /\ chunkOffset < DDR_MAX_OFFSET
    THEN [error |-> "Success",
          memory |-> [mem EXCEPT ![chunkOffset] = value]]
    ELSE [error |-> "Invalid_Offset", memory |-> mem]

\* The while loop of DataReaderWriter.Read.
RECURSIVE ReadLoop(_, _, _, _, _, _)
ReadLoop(mem, chunkOffset, value, byteOffsetInChunk, return_data, maxBytes) ==
    IF ~(Len(return_data) < maxBytes)
    THEN [error |-> "none", data |-> return_data]
    ELSE LET appended == Append(return_data, LowByte(value))
             shifted == ShiftRight8(value)
             next == ddr_getdatachunk(mem, chunkOffset + 1, shifted)
         IN  IF byteOffsetInChunk + 1 = SIZEOF_UINT32
             THEN IF chunkOffset + 1 >= DDR_MAX_OFFSET
                  THEN [error |-> "none", data |-> appended]
                  ELSE IF next.error # "Success"
                       THEN [error |-> "DataReaderWriterException",
                             data |-> <<>>]
                       ELSE ReadLoop(mem, chunkOffset + 1, next.value, 0,
                                     appended, maxBytes)
             ELSE ReadLoop(mem, chunkOffset, shifted, byteOffsetInChunk + 1,
                           appended, maxBytes)

\* DataReaderWriter.Read on an opened block: the first chunk is fetched and
\* its bytes are taken from the low byte up, whatever byteOffsetInChunk is.
DataReaderWriter_Read(mem, byteOffset, maxBytes) ==
    LET chunkOffset == byteOffset \div SIZEOF_UINT32
        byteOffsetInChunk == byteOffset % SIZEOF_UINT32
        first == ddr_getdatachunk(mem, chunkOffset, ZeroValue)
    IN  IF maxBytes > 0
        THEN IF first.error = "Success"
             THEN ReadLoop(mem, chunkOffset, first.value, byteOffsetInChunk,
                           <<>>, maxBytes)
             ELSE [error |-> "DataReaderWriterException", data |-> <<>>]
        ELSE [error |-> "none", data |-> <<>>]

\* The while loop of DataReaderWriter.Write and the write of the last,
\* partly filled chunk that follows it.
RECURSIVE WriteLoop(_, _, _, _, _, _, _)
WriteLoop(mem, chunkOffset, value, byteOffsetInChunk, data, bufferIndex, maxBytes) ==
    IF ~(bufferIndex < maxBytes)
    THEN IF byteOffsetInChunk # 0
         THEN LET last == ddr_setdatachunk(mem, chunkOffset, value)
              IN  IF last.error = "Success"
                  THEN [error |-> "none", memory |-> last.memory]
                  ELSE [error |-> "DataReaderWriterException",
                        memory |-> mem]
         ELSE [error |-> "none", memory |-> mem]
    ELSE LET written == ReplaceByte(value, byteOffsetInChunk,
                                    data[bufferIndex + 1])
             stored == ddr_setdatachunk(mem, chunkOffset, written)
             next == ddr_getdatachunk(stored.memory, chunkOffset + 1, written)
         IN  IF byteOffsetInChunk + 1 = SIZEOF_UINT32
             THEN IF stored.error = "Success"
                  THEN IF chunkOffset + 1 >= DDR_MAX_OFFSET
                       THEN [error |-> "none", memory |-> stored.memory]
                       ELSE IF next.error # "Success"
                            THEN [error |-> "DataReaderWriterException",
                                  memory |-> stored.memory]
                            ELSE WriteLoop(stored.memory, chunkOffset + 1,
                                           next.value, 0, data,
                                           bufferIndex + 1, maxBytes)
                  ELSE [error |-> "DataReaderWriterException", memory |-> mem]
             ELSE WriteLoop(mem, chunkOffset, written, byteOffsetInChunk + 1,
                            data, bufferIndex + 1, maxBytes)

\* DataReaderWriter.Write on an opened block: the first chunk is fetched only
\* when the write starts inside it; otherwise the value starts at 0.
DataReaderWriter_Write(mem, byteOffset, data, maxBytes) ==
    LET chunkOffset == byteOffset \div SIZEOF_UINT32
        byteOffsetInChunk == byteOffset % SIZEOF_UINT32
        first == IF byteOffsetInChunk # 0
                 THEN ddr_getdatachunk(mem, chunkOffset, 0)
                 ELSE [error |-> "Success", value |-> ZeroValue]
    IN  IF maxBytes > 0
        THEN IF first.error = "Success"
             THEN WriteLoop(mem, chunkOffset, first.value, byteOffsetInChunk,
                            data, 0, maxBytes)
             ELSE [error |-> "DataReaderWriterException", memory |-> mem]
        ELSE [error |-> "none", memory |-> mem]

\* The most bytes the callers write in one call, and the most Write calls
\* they make.
MaxData == 2
MaxWrites == 2

\* The byte values, buffers and byte offsets the callers use: the start of
\* the block, the offset of the exercise, an offset whose second byte is in
\* the next chunk, and the last two bytes of the block.
AdapterBytes == {1, 255}
AdapterData == UNION {[1..n -> AdapterBytes] : n \in 1..MaxData}
AdapterOffsets == {0, 41, 43, 126}

\* DataReaderWriter.__enter__: the block is opened.
DataReaderWriter_Enter ==
    /\ ~initialized
    /\ initialized' = TRUE
    /\ adCall' = [op |-> "Enter", byteOffset |-> 0, data |-> <<>>,
                  maxBytes |-> 0]
    /\ adError' = "none"
    /\ UNCHANGED <<memory, adReturn, adWrites, nonAdapterVars>>

\* DataReaderWriter.__exit__: the block is closed.
DataReaderWriter_Exit ==
    /\ initialized
    /\ initialized' = FALSE
    /\ adCall' = [op |-> "Exit", byteOffset |-> 0, data |-> <<>>,
                  maxBytes |-> 0]
    /\ adError' = "none"
    /\ UNCHANGED <<memory, adReturn, adWrites, nonAdapterVars>>

\* DataReaderWriter.Read(byteOffset, maxBytes)
Read(byteOffset, maxBytes) ==
    /\ LET r == DataReaderWriter_Read(memory, byteOffset, maxBytes)
       IN  IF ~initialized
           THEN /\ adError' = "DataReaderWriterInitException"
                /\ adReturn' = <<>>
           ELSE /\ adError' = r.error
                /\ adReturn' = r.data
    /\ adCall' = [op |-> "Read", byteOffset |-> byteOffset, data |-> <<>>,
                  maxBytes |-> maxBytes]
    /\ UNCHANGED <<memory, initialized, adWrites, nonAdapterVars>>

\* DataReaderWriter.Write(byteOffset, data, maxBytes)
Write(byteOffset, data, maxBytes) ==
    /\ adWrites < MaxWrites
    /\ LET r == DataReaderWriter_Write(memory, byteOffset, data, maxBytes)
       IN  IF ~initialized
           THEN /\ adError' = "DataReaderWriterInitException"
                /\ UNCHANGED <<memory, adWrites>>
           ELSE /\ adError' = r.error
                /\ memory' = r.memory
                /\ adWrites' = adWrites + 1
    /\ adCall' = [op |-> "Write", byteOffset |-> byteOffset, data |-> data,
                  maxBytes |-> maxBytes]
    /\ adReturn' = <<>>
    /\ UNCHANGED <<initialized, nonAdapterVars>>

InitAdapterSpec ==
    /\ InitAdapter
    /\ InitMediator
    /\ InitChain
    /\ InitCommand
    /\ InitMemento
    /\ InitComposite
    /\ InitFacade
    /\ text = <<>>
    /\ InitContext
    /\ args = <<>>
    /\ InitProgram

NextAdapter ==
    \/ DataReaderWriter_Enter
    \/ DataReaderWriter_Exit
    \/ \E byteOffset \in AdapterOffsets, maxBytes \in 1..MaxData :
          Read(byteOffset, maxBytes)
    \/ \E byteOffset \in AdapterOffsets, data \in AdapterData :
          Write(byteOffset, data, Len(data))

SpecAdapter == InitAdapterSpec /\ [][NextAdapter]_vars

\* ------------------------------------------------------------------------
\* Properties of the Adapter exercise
\* ------------------------------------------------------------------------

\* The byte size of the memory block (MemoryBlockByteSize).
MemoryBlockByteSize == DDR_MAX_OFFSET * SIZEOF_UINT32

\* C18: after Write(byteOffset, data, n) on an opened block, with
\* byteOffset + n inside the block, Read(byteOffset, n) returns data[0..n),
\* for every byteOffset.
C18_WriteReadRoundTrip ==
    [][\A byteOffset \in AdapterOffsets, maxBytes \in 1..MaxData :
          (/\ Read(byteOffset, maxBytes)
           /\ initialized
           /\ adCall.op = "Write"
           /\ adError = "none"
           /\ adCall.byteOffset = byteOffset
           /\ adCall.maxBytes = maxBytes
           /\ byteOffset + maxBytes <= MemoryBlockByteSize)
          => /\ adError' = "none"
             /\ adReturn' = SubSeq(adCall.data, 1, maxBytes)]_vars

\* ------------------------------------------------------------------------
\* Composite exercise: Composite_FileAccess over the fixed entry tree
\* ------------------------------------------------------------------------

\* Composite_FileAccess._rootEntry: the children of each DirEntry, by entry
\* name (every name occurs once in the tree, so a name identifies an entry).
DirChildren ==
    [root |-> <<"FileA.txt", "FileB.txt", "FileC.txt", "subdir1">>,
     subdir1 |-> <<"FileD.txt", "FileE.txt", "subdir2">>,
     subdir2 |-> <<"FileF.txt", "FileG.txt">>]

\* The root entry of the tree.
RootEntry == "root"

\* None, as _FindEntry returns it.
NoEntry == "None"

\* FileDirEntry.Children (None, held as the empty list) and DirEntry.Children
Children(entry) ==
    IF entry \in DOMAIN DirChildren THEN DirChildren[entry] ELSE <<>>

\* A file path is a sequence of tokens: a separator, "/" or "\\", or a piece
\* of text without separators.  A path component is the sequence of the
\* tokens between two separators, and FileDirEntry.Name of an entry equals a
\* component when the component is that one name.
Separators == {"/", "\\"}
NameMatches(entry, component) == component = <<entry>>

\* filepath.replace('\\', '/')
ReplaceBackslashes(filepath) ==
    [i \in 1..Len(filepath) |->
        IF filepath[i] = "\\" THEN "/" ELSE filepath[i]]

\* filepath.split('/')
RECURSIVE Split(_)
Split(filepath) ==
    IF \E i \in 1..Len(filepath) : filepath[i] = "/"
    THEN LET first == CHOOSE i \in 1..Len(filepath) :
                          /\ filepath[i] = "/"
                          /\ \A j \in 1..(i - 1) : filepath[j] # "/"
         IN  <<SubSeq(filepath, 1, first - 1)>>
                \o Split(SubSeq(filepath, first + 1, Len(filepath)))
    ELSE <<filepath>>

\* The inner loop of _FindEntry: the first child with the given name, or
\* None.
FindChild(children, childComponent) ==
    IF \E i \in 1..Len(children) : NameMatches(children[i], childComponent)
    THEN children[CHOOSE i \in 1..Len(children) :
                     /\ NameMatches(children[i], childComponent)
                     /\ \A j \in 1..(i - 1) :
                           ~NameMatches(children[j], childComponent)]
    ELSE NoEntry

\* The outer loop of _FindEntry from iteration index (0-based) on, with the
\* current value of root.  An entry without children in the middle of the
\* path ends the loop with root still set to that entry.
RECURSIVE FindEntryLoop(_, _, _)
FindEntryLoop(root, pathComponents, index) ==
    IF index >= Len(pathComponents)
    THEN root
    ELSE IF ~NameMatches(root, pathComponents[index + 1])
         THEN NoEntry
         ELSE IF index + 1 >= Len(pathComponents)
              THEN root
              ELSE IF Children(root) = <<>>
                   THEN root
                   ELSE LET child == FindChild(Children(root),
                                               pathComponents[index + 2])
                        IN  IF child = NoEntry
                            THEN NoEntry
                            ELSE FindEntryLoop(child, pathComponents,
                                               index + 1)

\* Composite_FileAccess._FindEntry
FindEntry(filepath) == FindEntryLoop(RootEntry, Split(filepath), 0)

\* Composite_FileAccess.GetEntry: the entry, or FileNotFoundError.
Composite_GetEntry(filepath) ==
    LET fileDirEntry == FindEntry(ReplaceBackslashes(filepath))
    IN  IF fileDirEntry = NoEntry
        THEN [error |-> "FileNotFoundError", entry |-> NoEntry]
        ELSE [error |-> "none", entry |-> fileDirEntry]

\* The most tokens of a file path.
MaxPath == 5

\* The tokens the callers build file paths from: names of entries of the
\* first three levels of the tree, a name that is no entry, and the
\* separators.
PathTokens == {"root", "FileA.txt", "subdir1", "FileD.txt", "x"} \cup Separators
FilePaths == UNION {[1..n -> PathTokens] : n \in 0..MaxPath}

\* Composite_FileAccess.GetEntry(filepath), with the caller's file path.
GetEntry ==
    /\ ~cfCalled
    /\ cfCalled' = TRUE
    /\ cfResult' = Composite_GetEntry(cfPath)
    /\ UNCHANGED <<cfPath, nonCompositeVars>>

InitCompositeSpec ==
    /\ \E filepath \in FilePaths : InitCompositeWith(filepath)
    /\ InitMediator
    /\ InitChain
    /\ InitCommand
    /\ InitMemento
    /\ InitAdapter
    /\ InitFacade
    /\ text = <<>>
    /\ InitContext
    /\ args = <<>>
    /\ InitProgram

NextComposite == GetEntry

SpecComposite == InitCompositeSpec /\ [][NextComposite]_vars

\* ------------------------------------------------------------------------
\* Properties of the Composite exercise
\* ------------------------------------------------------------------------

\* The path components as the caller wrote them: the pieces between
\* separators of either kind.
RECURSIVE Components(_)
Components(filepath) ==
    IF \E i \in 1..Len(filepath) : filepath[i] \in Separators
    THEN LET first == CHOOSE i \in 1..Len(filepath) :
                          /\ filepath[i] \in Separators
                          /\ \A j \in 1..(i - 1) : filepath[j] \notin Separators
         IN  <<SubSeq(filepath, 1, first - 1)>>
                \o Components(SubSeq(filepath, first + 1, Len(filepath)))
    ELSE <<filepath>>

\* The components name an entry of the tree: the first is the root, and each
\* further one is a child of the entry before it.
NamesEntry(components) ==
    /\ components[1] = <<RootEntry>>
    /\ \A i \in 2..Len(components) :
          /\ Len(components[i]) = 1
          /\ \E k \in 1..Len(Children(components[i - 1][1])) :
                Children(components[i - 1][1])[k] = components[i][1]

\* C19: GetEntry(path) returns the entry the path names, and raises
\* FileNotFoundError for every path that names no entry of the tree: a wrong
\* root, a missing child, and a path that continues below a file.
C19_GetEntryFindsOrRaises ==
    cfCalled =>
        LET components == Components(cfPath)
        IN  IF NamesEntry(components)
            THEN cfResult = [error |-> "none",
                             entry |-> components[Len(components)][1]]
            ELSE cfResult = [error |-> "FileNotFoundError", entry |-> NoEntry]

\* ------------------------------------------------------------------------
\* Facade exercise: DeviceNetworkHighLevel over Facade_ComplicatedSubSystem
\*
\* IDeviceNetworkHighLevel declares the abstract method NumChains, which
\* DeviceNetworkHighLevel does not define (it defines GetNumChains), so
\* CreateHighLevelInstance raises TypeError.  The methods below are modelled
\* as their code runs on an object of the class once it can be created
\* (a subclass that defines NumChains); the sub-system is the singleton of
\* CreateLowLevelInstance, which other callers can lock and unlock.
\* ------------------------------------------------------------------------

\* The & of two non-negative integers.
RECURSIVE BitAnd(_, _)
BitAnd(a, b) ==
    IF a = 0 \/ b = 0
    THEN 0
    ELSE (a % 2) * (b % 2) + 2 * BitAnd(a \div 2, b \div 2)

\* DeviceChain._ShowHideNodes: the new Visible flags.  The loop starts at
\* the second node with bitMask 0x2 and doubles bitMask for each node.
ShowHideNodes(visible, nodeSelectMask, makeVisible) ==
    [i \in 1..Len(visible) |->
        IF i >= 2 /\ BitAnd(2^(i - 1), nodeSelectMask) # 0
        THEN makeVisible
        ELSE visible[i]]

\* DeviceChain.SelectNodes
SelectNodes(visible, nodeSelectMask) ==
    ShowHideNodes(visible, nodeSelectMask, TRUE)

\* DeviceChain.ResetVisibility: every node that is not a DEVICECONTROLLER
\* becomes invisible.
ResetVisibility(chainIndex, visible) ==
    [i \in 1..Len(visible) |->
        IF ChainNodes[chainIndex][i].DeviceType # "DEVICECONTROLLER"
        THEN FALSE
        ELSE visible[i]]

\* DeviceChain.GetIdCodesForVisibleNodes: the loop over the nodes from
\* node i on.
RECURSIVE GetIdCodesForVisibleNodes(_, _, _)
GetIdCodesForVisibleNodes(chainIndex, visible, i) ==
    IF i > Len(visible)
    THEN <<>>
    ELSE (IF visible[i] THEN <<ChainNodes[chainIndex][i].Idcode>> ELSE <<>>)
            \o GetIdCodesForVisibleNodes(chainIndex, visible, i + 1)

\* `chainIndex >= 0 and chainIndex < len(self._deviceChains)`
ChainIndexInRange(chains, chainIndex) ==
    chainIndex >= 0 /\ chainIndex < Cardinality(DOMAIN chains)

\* Facade_ComplicatedSubSystem.LockDeviceChain
LockDeviceChain(chains, chainIndex) ==
    IF ChainIndexInRange(chains, chainIndex) /\ ~chains[chainIndex].IsLocked
    THEN [locked |-> TRUE,
          chains |-> [chains EXCEPT ![chainIndex].IsLocked = TRUE]]
    ELSE [locked |-> FALSE, chains |-> chains]

UnlockDeviceChain_NoUnlock(chains, chainIndex) ==
    [unlocked |-> FALSE, chains |-> chains]

\* Facade_ComplicatedSubSystem.UnlockDeviceChain
UnlockDeviceChain(chains, chainIndex) ==
    IF ChainIndexInRange(chains, chainIndex) /\ chains[chainIndex].IsLocked
    THEN [unlocked |-> TRUE,
          chains |-> [chains EXCEPT ![chainIndex].IsLocked = FALSE]]
    ELSE [unlocked |-> FALSE, chains |-> chains]

\* Facade_ComplicatedSubSystem.ResetDeviceChain
ResetDeviceChain(chains, chainIndex) ==
    IF ChainIndexInRange(chains, chainIndex)
    THEN [chains EXCEPT ![chainIndex].Visible =
             ResetVisibility(chainIndex, @)]
    ELSE chains

\* Facade_ComplicatedSubSystem.EnableDevicesInDeviceChain
LowLevel_EnableDevicesInDeviceChain(chains, chainIndex, deviceselectMask) ==
    IF ChainIndexInRange(chains, chainIndex)
    THEN [chains EXCEPT ![chainIndex].Visible =
             SelectNodes(@, deviceselectMask)]
    ELSE chains

\* Facade_ComplicatedSubSystem.GetIdcodes
LowLevel_GetIdcodes(chains, chainIndex) ==
    IF ChainIndexInRange(chains, chainIndex)
    THEN GetIdCodesForVisibleNodes(chainIndex, chains[chainIndex].Visible, 1)
    ELSE <<>>

\* DeviceNetworkHighLevel.GetIdcodes: what LockDeviceChain returned, the
\* list returned and the chains afterwards.
DeviceNetworkHighLevel_GetIdcodes(chains, chainIndex) ==
    LET l == LockDeviceChain(chains, chainIndex)
    IN  IF l.locked
        THEN [locked |-> TRUE,
              idcodes |-> LowLevel_GetIdcodes(l.chains, chainIndex),
              chains |-> UnlockDeviceChain(l.chains, chainIndex).chains]
        ELSE [locked |-> FALSE, idcodes |-> <<>>, chains |-> l.chains]

\* DeviceNetworkHighLevel.EnableDevicesInDeviceChain
DeviceNetworkHighLevel_EnableDevicesInDeviceChain(chains, chainIndex, selectMask) ==
    LET l == LockDeviceChain(chains, chainIndex)
        enabled == LowLevel_EnableDevicesInDeviceChain(l.chains, chainIndex,
                                                       selectMask)
    IN  IF l.locked
        THEN [locked |-> TRUE,
              chains |-> UnlockDeviceChain(enabled, chainIndex).chains]
        ELSE [locked |-> FALSE, chains |-> l.chains]

\* DeviceNetworkHighLevel.DisableDevicesInDeviceChain
DeviceNetworkHighLevel_DisableDevicesInDeviceChain(chains, chainIndex) ==
    LET l == LockDeviceChain(chains, chainIndex)
        reset == ResetDeviceChain(l.chains, chainIndex)
    IN  IF l.locked
        THEN [locked |-> TRUE,
              chains |-> UnlockDeviceChain(reset, chainIndex).chains]
        ELSE [locked |-> FALSE, chains |-> l.chains]

\* The chain indexes the callers pass: below the range, the two chains, and
\* above the range.
FacadeChainIndexes == {-1, 0, 1, 2}

\* The select masks the callers pass.  Only bits 1 and 2 select a node of a
\* three-node chain; 7 stands for the exercise's 0xffffffff.
FacadeSelectMasks == {0, 1, 2, 4, 6, 7}

\* fcReturn holds the list GetIdcodes returned; the calls that return None
\* leave it empty.
ReturnsNone == <<>>

\* deviceChainFacade.GetIdcodes(chainIndex)
GetIdcodes(chainIndex) ==
    /\ LET r == DeviceNetworkHighLevel_GetIdcodes(deviceChains, chainIndex)
       IN  /\ deviceChains' = r.chains
           /\ fcLocked' = r.locked
           /\ fcReturn' = r.idcodes
    /\ fcCall' = [op |-> "GetIdcodes", chainIndex |-> chainIndex,
                  selectMask |-> 0]
    /\ UNCHANGED nonFacadeVars

\* deviceChainFacade.EnableDevicesInDeviceChain(chainIndex, selectMask)
EnableDevicesInDeviceChain(chainIndex, selectMask) ==
    /\ LET r == DeviceNetworkHighLevel_EnableDevicesInDeviceChain(
                   deviceChains, chainIndex, selectMask)
       IN  /\ deviceChains' = r.chains
           /\ fcLocked' = r.locked
    /\ fcReturn' = ReturnsNone
    /\ fcCall' = [op |-> "EnableDevicesInDeviceChain",
                  chainIndex |-> chainIndex, selectMask |-> selectMask]
    /\ UNCHANGED nonFacadeVars

\* deviceChainFacade.DisableDevicesInDeviceChain(chainIndex)
DisableDevicesInDeviceChain(chainIndex) ==
    /\ LET r == DeviceNetworkHighLevel_DisableDevicesInDeviceChain(
                   deviceChains, chainIndex)
       IN  /\ deviceChains' = r.chains
           /\ fcLocked' = r.locked
    /\ fcReturn' = ReturnsNone
    /\ fcCall' = [op |-> "DisableDevicesInDeviceChain",
                  chainIndex |-> chainIndex, selectMask |-> 0]
    /\ UNCHANGED nonFacadeVars

\* Another user of the sub-system singleton calls LockDeviceChain.
LowLevel_LockDeviceChain(chainIndex) ==
    /\ LET r == LockDeviceChain(deviceChains, chainIndex)
       IN  /\ deviceChains' = r.chains
           /\ fcLocked' = r.locked
    /\ fcReturn' = ReturnsNone
    /\ fcCall' = [op |-> "LockDeviceChain", chainIndex |-> chainIndex,
                  selectMask |-> 0]
    /\ UNCHANGED nonFacadeVars

\* Another user of the sub-system singleton calls UnlockDeviceChain.
LowLevel_UnlockDeviceChain(chainIndex) ==
    /\ deviceChains' = UnlockDeviceChain(deviceChains, chainIndex).chains
    /\ fcLocked' = FALSE
    /\ fcReturn' = ReturnsNone
    /\ fcCall' = [op |-> "UnlockDeviceChain", chainIndex |-> chainIndex,
                  selectMask |-> 0]
    /\ UNCHANGED nonFacadeVars

InitFacadeSpec ==
    /\ InitFacade
    /\ InitMediator
    /\ InitChain
    /\ InitCommand
    /\ InitMemento
    /\ InitAdapter
    /\ InitComposite
    /\ text = <<>>
    /\ InitContext
    /\ args = <<>>
    /\ InitProgram

NextFacade ==
    \/ \E chainIndex \in FacadeChainIndexes : GetIdcodes(chainIndex)
    \/ \E chainIndex \in FacadeChainIndexes, selectMask \in FacadeSelectMasks :
          EnableDevicesInDeviceChain(chainIndex, selectMask)
    \/ \E chainIndex \in FacadeChainIndexes :
          DisableDevicesInDeviceChain(chainIndex)
    \/ \E chainIndex \in FacadeChainIndexes :
          LowLevel_LockDeviceChain(chainIndex)
    \/ \E chainIndex \in FacadeChainIndexes :
          LowLevel_UnlockDeviceChain(chainIndex)

SpecFacade == InitFacadeSpec /\ [][NextFacade]_vars

\* ------------------------------------------------------------------------
\* Properties of the Facade exercise
\* ------------------------------------------------------------------------

\* The chain exists and is not locked.
UnlockedChain(chainIndex) ==
    chainIndex \in DOMAIN deviceChains /\ ~deviceChains[chainIndex].IsLocked

\* The call took the lock of the chain, gave it back, and touched no other
\* chain and no lock state.
LockedAndUnlocked(chainIndex) ==
    /\ fcLocked'
    /\ \A c \in DOMAIN deviceChains :
          /\ deviceChains'[c].IsLocked = deviceChains[c].IsLocked
          /\ c # chainIndex => deviceChains'[c] = deviceChains[c]

\* The call could not take the lock and changed nothing.
Refused == ~fcLocked' /\ deviceChains' = deviceChains

\* Bit k of a non-negative mask is set.
BitIsSet(mask, k) == (mask \div (2^k)) % 2 = 1

\* The idcodes of the visible nodes of the chain, in chain order.
VisibleIdcodes(chainIndex) ==
    LET nodes == ChainNodes[chainIndex]
        shown == SelectSeq([i \in 1..Len(nodes) |-> i],
                           LAMBDA i : deviceChains[chainIndex].Visible[i])
    IN  [k \in 1..Len(shown) |-> nodes[shown[k]].Idcode]

====
